---- MODULE Spec2Model ----
(***************************************************************************)
(* The resilient streaming inference client (OllamaClient), the correction *)
(* store and the conversation orchestrator (MathTutorChatbot) of           *)
(* Version_3/src/math_solver, with the message handler that drives them.   *)
(* Python strings are sequences of one-character strings.                  *)
(***************************************************************************)
EXTENDS Integers, Sequences, FiniteSets, TLC

(***************************************************************************)
(* Bounds of the model.                                                    *)
(***************************************************************************)
\* largest retries argument of a direct chat_stream call
MaxRetries == 3
\* largest retry_delay argument of a direct chat_stream call
MaxDelay == 2
\* response lines read during one chat_stream call before its last line
MaxLines == 2
\* connection objects created during one run
MaxClients == 5
\* messages kept in the visible history
MaxHistory == 2
\* entries of the correction store
MaxCorrections == 2

(***************************************************************************)
(* Program constants.                                                      *)
(***************************************************************************)
\* chat_stream(..., retries: int = 3, ...)
DefaultRetries == 3
\* chat_stream(..., retry_delay: float = 1.0)
DefaultRetryDelay == 1

(***************************************************************************)
(* Text helpers: str.lower, str.strip, the in operator, startswith.        *)
(***************************************************************************)
Lower(c) ==
    CASE c = "A" -> "a" [] c = "B" -> "b" [] c = "C" -> "c" [] c = "D" -> "d"
      [] c = "E" -> "e" [] c = "F" -> "f" [] c = "G" -> "g" [] c = "H" -> "h"
      [] c = "I" -> "i" [] c = "J" -> "j" [] c = "K" -> "k" [] c = "L" -> "l"
      [] c = "M" -> "m" [] c = "N" -> "n" [] c = "O" -> "o" [] c = "P" -> "p"
      [] c = "Q" -> "q" [] c = "R" -> "r" [] c = "S" -> "s" [] c = "T" -> "t"
      [] c = "U" -> "u" [] c = "V" -> "v" [] c = "W" -> "w" [] c = "X" -> "x"
      [] c = "Y" -> "y" [] c = "Z" -> "z" [] OTHER -> c

ToLower(s) == [i \in 1..Len(s) |-> Lower(s[i])]

Whitespace == {" ", "\n", "\t", "\r"}

\* str.strip(): white space taken off the left, then off the right
Strip(s) ==
    LET RECURSIVE LStrip(_)
        LStrip(x) ==
            IF x # <<>> /\ Head(x) \in Whitespace THEN LStrip(Tail(x)) ELSE x
        RECURSIVE RStrip(_)
        RStrip(x) ==
            IF x # <<>> /\ x[Len(x)] \in Whitespace
            THEN RStrip(SubSeq(x, 1, Len(x) - 1))
            ELSE x
    IN  RStrip(LStrip(s))

\* Python: pat in text
Contains(text, pat) ==
    \E i \in 1..(Len(text) - Len(pat) + 1) : SubSeq(text, i, i + Len(pat) - 1) = pat

StartsWith(s, p) == Len(s) >= Len(p) /\ SubSeq(s, 1, Len(p)) = p

\* index of the first occurrence of pat in text, 0 when there is none
Find(text, pat) ==
    IF Contains(text, pat)
    THEN CHOOSE i \in 1..(Len(text) - Len(pat) + 1) :
            /\ SubSeq(text, i, i + Len(pat) - 1) = pat
            /\ \A j \in 1..(i - 1) : SubSeq(text, j, j + Len(pat) - 1) # pat
    ELSE 0

RECURSIVE Join(_)
Join(ss) == IF ss = <<>> THEN <<>> ELSE Head(ss) \o Join(Tail(ss))

(***************************************************************************)
(* Texts of the environment: fragments the backend streams.                *)
(***************************************************************************)
Fragment == [Hi |-> <<"H", "i">>, There |-> <<" ", "t", "h", "e", "r", "e">>]

(***************************************************************************)
(* One line of the streamed response body, by what json.loads and the      *)
(* field tests of chat_stream see in it.                                   *)
(*   shape: blank | malformed | nonobject | object                         *)
(*   msg:   absent | nocontent | content | badtype                         *)
(***************************************************************************)
RespLine(shape, msg, content, done) ==
    [shape |-> shape, msg |-> msg, content |-> content, done |-> done]


Lines ==
    {
     \* {"message":{"content":"Hi"}}
     RespLine("object", "content", Fragment.Hi, FALSE),
     \* {"message":{"content":" there"}}
     RespLine("object", "content", Fragment.There, FALSE),
     \* {"message":{"content":""}}
     RespLine("object", "content", <<>>, FALSE),
     \* {"done":true}
     RespLine("object", "absent", <<>>, TRUE),
     \* {"message":{"content":"Hi"},"done":true}
     RespLine("object", "content", Fragment.Hi, TRUE),
     \* {"message":{"content":""},"done":true}
     RespLine("object", "content", <<>>, TRUE),
     \* {"message":{"role":"assistant"},"done":true}
     RespLine("object", "nocontent", <<>>, TRUE),
     \* {"message": (not closed
     RespLine("malformed", "absent", <<>>, FALSE),
     \* a line of spaces
     RespLine("blank", "absent", <<>>, FALSE),
     \* [1, 2]
     RespLine("nonobject", "absent", <<>>, FALSE),
     \* {"message": null}
     RespLine("object", "badtype", <<>>, FALSE)
    }

(***************************************************************************)
(* Failures of one attempt.                                                *)
(***************************************************************************)
\* establish: raised by client.stream(...) / raise_for_status() while the
\* stream is opened; read: raised by response.aiter_lines() on a stream that
\* is already open
Failures ==
    [establish |-> {"ConnectError", "TimeoutException", "HTTPStatusError",
                    "RemoteProtocolError"},
     read |-> {"TimeoutException", "ReadError"}]

\* one clause that treats every exception as a connection failure
ExceptClauseAlwaysReconnect(kind) == "connection"

\* the except clause of chat_stream that catches an exception
ExceptClause(kind) ==
    IF kind \in {"ConnectError", "TimeoutException"} THEN "connection"
    ELSE IF kind = "HTTPStatusError" THEN "status"
    ELSE "other"

BackoffLinear(retry_delay, attempt) == retry_delay * (attempt + 1)
\* retry_delay * (2 ** attempt)
Backoff(retry_delay, attempt) == retry_delay * 2^attempt

\* a loop body without the except json.JSONDecodeError clause
LineActionUncaught(l) ==
    IF l.shape = "blank" THEN "skip"
    ELSE IF l.shape \in {"malformed", "nonobject"} THEN "raise"
    ELSE IF l.msg = "badtype" THEN "raise"
    ELSE IF l.msg = "content"
         THEN (IF l.content # <<>> THEN "yield" ELSE "skip")
    ELSE IF l.done THEN "break"
    ELSE "skip"

\* what the loop body of chat_stream does with one line
LineAction(l) ==
    IF l.shape = "blank" THEN "skip"
    ELSE IF l.shape = "malformed" THEN "skip"
    ELSE IF l.shape = "nonobject" THEN "raise"
    ELSE IF l.msg = "badtype" THEN "raise"
    ELSE IF l.msg = "content"
         THEN (IF l.content # <<>> THEN "yield" ELSE "skip")
    ELSE IF l.done THEN "break"
    ELSE "skip"

(***************************************************************************)
(* Regular expressions of tool_detector.py, matched the way Python's re    *)
(* does: M gives the end positions of the matches of r that start at       *)
(* position i of s, in the order in which backtracking tries them, so the  *)
(* first one is the match re reports.  ic is re.IGNORECASE.                *)
(***************************************************************************)
Digits == {"0", "1", "2", "3", "4", "5", "6", "7", "8", "9"}
LowerLetters ==
    {"a", "b", "c", "d", "e", "f", "g", "h", "i", "j", "k", "l", "m", "n", "o",
     "p", "q", "r", "s", "t", "u", "v", "w", "x", "y", "z"}
WordChars == LowerLetters \cup Digits \cup {"_"}

Chr(cs) == [t |-> "set", cs |-> cs]
NotChr(cs) == [t |-> "notset", cs |-> cs]
WordBoundary == [t |-> "wb"]
Cat(xs) == [t |-> "seq", xs |-> xs]
Alt(xs) == [t |-> "alt", xs |-> xs]
Star(x) == [t |-> "star", x |-> x]
Plus(x) == [t |-> "plus", x |-> x]
Lit(str) == Cat([k \in 1..Len(str) |-> Chr({str[k]})])

IsWordAt(s, i) == i >= 1 /\ i <= Len(s) /\ Lower(s[i]) \in WordChars

\* ps without the repetitions of its elements
RECURSIVE DedupFrom(_, _, _)
DedupFrom(ps, k, seen) ==
    IF k > Len(ps) THEN <<>>
    ELSE IF ps[k] \in seen THEN DedupFrom(ps, k + 1, seen)
    ELSE <<ps[k]>> \o DedupFrom(ps, k + 1, seen \cup {ps[k]})

Dedup(ps) == DedupFrom(ps, 1, {})

RECURSIVE M(_, _, _, _)
RECURSIVE MEach(_, _, _, _, _)
RECURSIVE MSeq(_, _, _, _, _)
RECURSIVE MAlt(_, _, _, _, _)

\* the ends of r started at each position of ps, in order
MEach(r, s, ps, k, ic) ==
    IF k > Len(ps) THEN <<>>
    ELSE M(r, s, ps[k], ic) \o MEach(r, s, ps, k + 1, ic)

MSeq(xs, k, s, ps, ic) ==
    IF k > Len(xs) \/ ps = <<>> THEN ps
    ELSE MSeq(xs, k + 1, s, Dedup(MEach(xs[k], s, ps, 1, ic)), ic)

MAlt(xs, k, s, i, ic) ==
    IF k > Len(xs) THEN <<>>
    ELSE M(xs[k], s, i, ic) \o MAlt(xs, k + 1, s, i, ic)

M(r, s, i, ic) ==
    CASE r.t = "set" ->
            IF i <= Len(s) /\ (IF ic THEN Lower(s[i]) ELSE s[i]) \in r.cs
            THEN <<i + 1>> ELSE <<>>
      [] r.t = "notset" ->
            IF i <= Len(s) /\ s[i] \notin r.cs THEN <<i + 1>> ELSE <<>>
      [] r.t = "any" ->
            IF i <= Len(s) /\ s[i] # "\n" THEN <<i + 1>> ELSE <<>>
      [] r.t = "wb" ->
            IF IsWordAt(s, i - 1) # IsWordAt(s, i) THEN <<i>> ELSE <<>>
      [] r.t = "seq" -> MSeq(r.xs, 1, s, <<i>>, ic)
      [] r.t = "alt" -> Dedup(MAlt(r.xs, 1, s, i, ic))
      [] r.t = "opt" -> Dedup(M(r.x, s, i, ic) \o <<i>>)
      [] r.t = "star" ->
            LET once == SelectSeq(M(r.x, s, i, ic), LAMBDA j : j > i)
            IN  Dedup(MEach(r, s, once, 1, ic) \o <<i>>)
      [] r.t = "plus" ->
            Dedup(MEach(Star(r.x), s, M(r.x, s, i, ic), 1, ic))

\* re.findall(r, s) for a pattern without capturing groups
RECURSIVE FindAllFrom(_, _, _, _)
FindAllFrom(r, s, p, ic) ==
    IF p > Len(s) + 1 THEN <<>>
    ELSE LET ends == M(r, s, p, ic)
         IN  IF ends = <<>> THEN FindAllFrom(r, s, p + 1, ic)
             ELSE <<SubSeq(s, p, ends[1] - 1)>>
                  \o FindAllFrom(r, s, IF ends[1] = p THEN p + 1 ELSE ends[1], ic)

FindAll(r, s, ic) == FindAllFrom(r, s, 1, ic)

\* the boundaries of the consecutive parts xs of a pattern matched from i:
\* every way to match them, in backtracking order
RECURSIVE MParts(_, _, _, _, _)
MParts(xs, k, s, paths, ic) ==
    IF k > Len(xs) \/ paths = <<>> THEN paths
    ELSE LET Extend(p) ==
                 LET ends == M(xs[k], s, p[Len(p)], ic)
                 IN  [j \in 1..Len(ends) |-> Append(p, ends[j])]
             RECURSIVE All(_)
             All(n) == IF n > Len(paths) THEN <<>>
                       ELSE Extend(paths[n]) \o All(n + 1)
         IN  MParts(xs, k + 1, s, All(1), ic)

\* re.search(parts, s): the boundaries of the parts in the first match, or <<>>
RECURSIVE SearchFrom(_, _, _, _)
SearchFrom(xs, s, p, ic) ==
    IF p > Len(s) + 1 THEN <<>>
    ELSE LET paths == MParts(xs, 1, s, <<<<p>>>>, ic)
         IN  IF paths = <<>> THEN SearchFrom(xs, s, p + 1, ic) ELSE paths[1]

\* the text of part k of a match with boundaries b
Part(s, b, k) == SubSeq(s, b[k], b[k + 1] - 1)

(***************************************************************************)
(* tool_detector.py                                                        *)
(***************************************************************************)
\* Optional[str]: None is a text no Python string equals
None == <<"<None>">>
Truthy(x) == x # None /\ x # <<>>

W ==
    [solve |-> <<"s", "o", "l", "v", "e">>,
     simplify |-> <<"s", "i", "m", "p", "l", "i", "f", "y">>,
     factor |-> <<"f", "a", "c", "t", "o", "r">>,
     diff |-> <<"d", "i", "f", "f">>,
     integrate |-> <<"i", "n", "t", "e", "g", "r", "a", "t", "e">>,
     limit |-> <<"l", "i", "m", "i", "t">>,
     series |-> <<"s", "e", "r", "i", "e", "s">>,
     matrix |-> <<"m", "a", "t", "r", "i", "x">>,
     vector |-> <<"v", "e", "c", "t", "o", "r">>,
     sin |-> <<"s", "i", "n">>,
     cos |-> <<"c", "o", "s">>,
     tan |-> <<"t", "a", "n">>,
     exp |-> <<"e", "x", "p">>,
     log |-> <<"l", "o", "g">>,
     sqrt |-> <<"s", "q", "r", "t">>,
     plus |-> <<"p", "l", "u", "s">>,
     minus |-> <<"m", "i", "n", "u", "s">>,
     times |-> <<"t", "i", "m", "e", "s">>,
     multiplied |-> <<"m", "u", "l", "t", "i", "p", "l", "i", "e", "d">>,
     divided |-> <<"d", "i", "v", "i", "d", "e", "d">>,
     by |-> <<"b", "y">>,
     what |-> <<"w", "h", "a", "t">>,
     is |-> <<"i", "s">>,
     calculate |-> <<"c", "a", "l", "c", "u", "l", "a", "t", "e">>,
     compute |-> <<"c", "o", "m", "p", "u", "t", "e">>,
     equals |-> <<"e", "q", "u", "a", "l", "s">>]

\* Num: \d+(?:\.\d+)?   Sp: \s*   Sp1: \s+   Ops: [+\-*/]
Re ==
    [Num |-> Cat(<<Plus(Chr(Digits)), [t |-> "opt", x |-> Cat(<<Chr({"."}), Plus(Chr(Digits))>>)]>>),
     Sp |-> Star(Chr(Whitespace \cup {"\f"})),
     Sp1 |-> Plus(Chr(Whitespace \cup {"\f"})),
     Ops |-> Chr({"+", "-", "*", "/"})]

\* arithmetic_patterns of detect_basic_arithmetic
ArithmeticPatterns ==
    << Cat(<<Re.Num, Re.Sp, Re.Ops, Re.Sp, Re.Num, Star(Cat(<<Re.Sp, Re.Ops, Re.Sp, Re.Num>>))>>),
       Cat(<<Re.Num, Re.Sp, Lit(<<"*", "*">>), Re.Sp, Re.Num>>),
       Cat(<<Chr({"("}), Re.Sp, Re.Num, Re.Sp, Re.Ops, Re.Sp, Re.Num, Re.Sp, Chr({")"})>>) >>

\* (plus|minus|times|multiplied\s+by|divided\s+by)
OpWord ==
    Alt(<<Lit(W.plus), Lit(W.minus), Lit(W.times),
          Cat(<<Lit(W.multiplied), Re.Sp1, Lit(W.by)>>),
          Cat(<<Lit(W.divided), Re.Sp1, Lit(W.by)>>)>>)

\* nl_patterns of detect_basic_arithmetic, each cut at its capturing groups,
\* with the positions of the three groups among the parts
NlPatterns ==
    << [parts |-> <<Cat(<<Lit(W.what), Re.Sp1, Lit(W.is), Re.Sp1>>), Re.Num, Re.Sp, OpWord,
                    Re.Sp1, Re.Num>>,
        groups |-> <<2, 4, 6>>],
       [parts |-> <<Cat(<<Alt(<<Lit(W.calculate), Lit(W.compute)>>), Re.Sp1>>), Re.Num,
                    Re.Sp, Re.Ops, Re.Sp, Re.Num>>,
        groups |-> <<2, 4, 6>>],
       [parts |-> <<Re.Num, Re.Sp, OpWord, Re.Sp1, Re.Num,
                    Cat(<<Re.Sp, Alt(<<Lit(W.equals), Lit(W.is), Lit(<<"=">>)>>)>>)>>,
        groups |-> <<1, 3, 5>>] >>

\* op_map: the symbol of a word operator, None when the word is no key
OpMap(w) ==
    CASE w = W.plus -> <<"+">>
      [] w = W.minus -> <<"-">>
      [] w = W.times -> <<"*">>
      [] w = W.multiplied \o <<" ">> \o W.by -> <<"*">>
      [] w = W.divided \o <<" ">> \o W.by -> <<"/">>
      [] OTHER -> None

\* max(matches, key=len): the first of the longest
MaxByLen(ms) ==
    LET RECURSIVE MaxByLenFrom(_, _)
        MaxByLenFrom(k, best) ==
            IF k > Len(ms) THEN best
            ELSE MaxByLenFrom(k + 1,
                              IF Len(ms[k]) > Len(best) THEN ms[k] ELSE best)
    IN  MaxByLenFrom(2, ms[1])

RECURSIVE DirectArithmetic(_, _)
DirectArithmetic(text, k) ==
    IF k > Len(ArithmeticPatterns) THEN None
    ELSE LET matches == FindAll(ArithmeticPatterns[k], text, TRUE)
         IN  IF matches # <<>> THEN MaxByLen(matches)
             ELSE DirectArithmetic(text, k + 1)

RECURSIVE NlArithmetic(_, _)
NlArithmetic(text_lower, k) ==
    IF k > Len(NlPatterns) THEN None
    ELSE LET b == SearchFrom(NlPatterns[k].parts, text_lower, 1, FALSE)
             g == NlPatterns[k].groups
         IN  IF b # <<>> /\ OpMap(Part(text_lower, b, g[2])) # None
             THEN Part(text_lower, b, g[1]) \o OpMap(Part(text_lower, b, g[2]))
                  \o Part(text_lower, b, g[3])
             ELSE NlArithmetic(text_lower, k + 1)

detect_basic_arithmetic(text) ==
    LET direct == DirectArithmetic(text, 1)
    IN  IF direct # None THEN direct
        ELSE NlArithmetic(Strip(ToLower(text)), 1)

\* patterns of detect_math_expression
MathPatterns ==
    << Cat(<<WordBoundary,
             Alt(<<Lit(W.solve), Lit(W.simplify), Lit(W.factor), Lit(W.diff),
                   Lit(W.integrate), Lit(W.limit), Lit(W.series), Lit(W.matrix)>>),
             Re.Sp, Chr({"("}), Plus(NotChr({")"})), Chr({")"})>>),
       Cat(<<WordBoundary, Re.Num, Re.Sp, Chr({"+", "-", "*", "/", "^"}), Re.Sp, Re.Num>>),
       Cat(<<WordBoundary, Plus(Chr(LowerLetters)), Re.Sp, Chr({"="}), Re.Sp,
             Plus(NotChr({"=", "\n"}))>>),
       Cat(<<WordBoundary, Plus(Chr(LowerLetters)), Chr({"("}),
             Star(NotChr({")"})), Chr({")"}), Re.Sp, Chr({"="}), Re.Sp,
             Plus(NotChr({"=", "\n"}))>>),
       Cat(<<Chr({"$"}), Star([t |-> "any"]), Chr({"$"})>>) >>

\* the first match longer than 3 characters, without its LaTeX delimiters
RECURSIVE FirstSubstantial(_, _)
FirstSubstantial(matches, k) ==
    IF k > Len(matches) THEN None
    ELSE LET m == matches[k]
         IN  IF Len(Strip(m)) > 3
             THEN (IF m[1] = "$" /\ m[Len(m)] = "$"
                   THEN SubSeq(m, 2, Len(m) - 1) ELSE m)
             ELSE FirstSubstantial(matches, k + 1)

RECURSIVE MathExpression(_, _)
MathExpression(text, k) ==
    IF k > Len(MathPatterns) THEN None
    ELSE LET found == FirstSubstantial(FindAll(MathPatterns[k], text, TRUE), 1)
         IN  IF found # None THEN found ELSE MathExpression(text, k + 1)

detect_math_expression(text) == MathExpression(text, 1)

SymbolicIndicators ==
    {W.solve, W.simplify, W.factor, W.diff, W.integrate, W.limit, W.series,
     <<"=">>, <<"x">>, <<"y">>, <<"z">>,
     W.sin, W.cos, W.tan, W.exp, W.log, W.sqrt, W.matrix, W.vector}

should_use_sympy(text) ==
    LET expression == detect_math_expression(text)
    IN  /\ Truthy(expression)
        /\ \E ind \in SymbolicIndicators : Contains(ToLower(expression), ind)

is_basic_arithmetic(text) ==
    LET expr == detect_basic_arithmetic(text)
    IN  /\ Truthy(expr)
        \* complex_indicators: the symbolic indicators and a, b, c
        /\ ~ \E ind \in SymbolicIndicators \cup {<<"a">>, <<"b">>, <<"c">>} :
                Contains(ToLower(expr), ind)

\* MathTutorChatbot._detect_tool_intent; "none" stands for None
detect_tool_intent(user_input) ==
    IF is_basic_arithmetic(user_input) THEN "basic_arithmetic"
    ELSE IF Truthy(detect_math_expression(user_input))
            /\ should_use_sympy(user_input) THEN "sympy"
    ELSE IF Truthy(detect_math_expression(user_input))
            /\ ~should_use_sympy(user_input) THEN "numeric"
    ELSE "none"

(***************************************************************************)
(* math_evaluators.py: safe_arithmetic_eval and evaluate_basic_arithmetic. *)
(* Python's eval is modelled for what detect_basic_arithmetic extracts:    *)
(* integer literals joined by + - * / (usual precedence, left to right),   *)
(* one ** of two integers, one parenthesised operation.  A value is a      *)
(* fraction n/d; a float that is no integer is printed when it is a        *)
(* multiple of 1/8, which repr() prints exactly.  Anything else (decimal   *)
(* literals, other fractions) is left unevaluated, as Unmodelled.          *)
(***************************************************************************)
EvaluatorText ==
    [
     InvalidChars |->
        <<"E", "x", "p", "r", "e", "s", "s", "i", "o", "n", " ", "c", "o", "n", "t", "a", "i", "n", "s", " ", "i", "n", "v", "a", "l", "i", "d", " ", "c", "h", "a", "r", "a", "c", "t", "e", "r", "s">>,
     DivisionByZero |->
        <<"D", "i", "v", "i", "s", "i", "o", "n", " ", "b", "y", " ", "z", "e", "r", "o">>,
     InvalidExprPrefix |->
        <<"I", "n", "v", "a", "l", "i", "d", " ", "a", "r", "i", "t", "h", "m", "e", "t", "i", "c", " ", "e", "x", "p", "r", "e", "s", "s", "i", "o", "n", ":", " ">>,
     \* str(SyntaxError) for an integer literal with a leading zero
     LeadingZeros |->
        <<"l", "e", "a", "d", "i", "n", "g", " ", "z", "e", "r", "o", "s", " ", "i", "n", " ", "d", "e", "c", "i", "m", "a", "l", " ", "i", "n", "t", "e", "g", "e", "r", " ", "l", "i", "t", "e", "r", "a", "l", "s", " ", "a", "r", "e", " ", "n", "o", "t", " ", "p", "e", "r", "m", "i", "t", "t", "e", "d", ";", " ", "u", "s", "e", " ", "a", "n", " ", "0", "o", " ", "p", "r", "e", "f", "i", "x", " ", "f", "o", "r", " ", "o", "c", "t", "a", "l", " ", "i", "n", "t", "e", "g", "e", "r", "s", " ", "(", "<", "s", "t", "r", "i", "n", "g", ">", ",", " ", "l", "i", "n", "e", " ", "1", ")">>,
     ResultPrefix |->
        <<"R", "e", "s", "u", "l", "t", ":", " ">>,
     ArithmeticResult |->
        <<"*", "*", "A", "r", "i", "t", "h", "m", "e", "t", "i", "c", " ", "R", "e", "s", "u", "l", "t", ":", "*", "*", "\n">>,
     ArithmeticError |->
        <<"*", "*", "A", "r", "i", "t", "h", "m", "e", "t", "i", "c", " ", "E", "r", "r", "o", "r", ":", "*", "*", " ">>,
     SymPyEvaluation |->
        <<"*", "*", "S", "y", "m", "P", "y", " ", "E", "v", "a", "l", "u", "a", "t", "i", "o", "n", ":", "*", "*", "\n">>,
     SymPyError |->
        <<"*", "*", "S", "y", "m", "P", "y", " ", "E", "r", "r", "o", "r", ":", "*", "*", " ">>,
     NumericResult |->
        <<"*", "*", "N", "u", "m", "e", "r", "i", "c", " ", "R", "e", "s", "u", "l", "t", ":", "*", "*", "\n">>,
     EvaluationError |->
        <<"*", "*", "E", "v", "a", "l", "u", "a", "t", "i", "o", "n", " ", "E", "r", "r", "o", "r", ":", "*", "*", " ">>,
     SymbolicResult |->
        <<"*", "*", "S", "y", "m", "b", "o", "l", "i", "c", " ", "R", "e", "s", "u", "l", "t", ":", "*", "*", "\\", "n">>,
     EvaluationTimedOut |->
        <<"E", "v", "a", "l", "u", "a", "t", "i", "o", "n", " ", "t", "i", "m", "e", "d", " ", "o", "u", "t">>,
     CalculationTimedOut |->
        <<"C", "a", "l", "c", "u", "l", "a", "t", "i", "o", "n", " ", "t", "i", "m", "e", "d", " ", "o", "u", "t">>,
     \* a result the model does not compute
     Unmodelled |-> <<"<unmodelled float>">>
    ]
DigitChr(n) == <<"0", "1", "2", "3", "4", "5", "6", "7", "8", "9">>[n + 1]

RECURSIVE NatVal(_)
NatVal(ds) ==
    LET DigitVal(c) ==
            CASE c = "0" -> 0 [] c = "1" -> 1 [] c = "2" -> 2 [] c = "3" -> 3
              [] c = "4" -> 4 [] c = "5" -> 5 [] c = "6" -> 6 [] c = "7" -> 7
              [] c = "8" -> 8 [] c = "9" -> 9
    IN  IF ds = <<>> THEN 0
        ELSE 10 * NatVal(SubSeq(ds, 1, Len(ds) - 1)) + DigitVal(ds[Len(ds)])

RECURSIVE NatText(_)
NatText(n) == IF n < 10 THEN <<DigitChr(n)>>
              ELSE NatText(n \div 10) \o <<DigitChr(n % 10)>>

\* a value of the evaluation: the fraction n/d in lowest terms, and whether
\* it is a float
Val(n, d, float) ==
    LET RECURSIVE Gcd(_, _)
        Gcd(a, b) == IF b = 0 THEN a ELSE Gcd(b, a % b)
        g == Gcd(IF n < 0 THEN -n ELSE n, d)
    IN  [n |-> n \div g, d |-> d \div g, float |-> float]

Apply(op, a, b) ==
    CASE op = "+" -> Val(a.n * b.d + b.n * a.d, a.d * b.d, a.float \/ b.float)
      [] op = "-" -> Val(a.n * b.d - b.n * a.d, a.d * b.d, a.float \/ b.float)
      [] op = "*" -> Val(a.n * b.n, a.d * b.d, a.float \/ b.float)
      [] op = "/" -> IF b.n > 0 THEN Val(a.n * b.d, a.d * b.n, TRUE)
                     ELSE Val(-(a.n * b.d), a.d * (-b.n), TRUE)

\* the tokens of a cleaned expression: digit runs and single characters
RECURSIVE Tokens(_)
Tokens(s) ==
    IF s = <<>> THEN <<>>
    ELSE IF Head(s) \in Digits
    THEN LET RECURSIVE Run(_)
             Run(k) == IF k <= Len(s) /\ s[k] \in Digits THEN Run(k + 1) ELSE k - 1
             e == Run(1)
         IN  <<SubSeq(s, 1, e)>> \o Tokens(SubSeq(s, e + 1, Len(s)))
    ELSE <<<<Head(s)>>>> \o Tokens(Tail(s))

IsNumTok(tk) == tk # <<>> /\ tk[1] \in Digits

\* num (op num)* : products and quotients first, then sums, left to right
EvalChain(toks) ==
    LET RECURSIVE EvalTerm(_, _)
        EvalTerm(k, acc) ==
            IF k + 1 <= Len(toks) /\ toks[k] \in {<<"*">>, <<"/">>}
            THEN EvalTerm(k + 2,
                          Apply(toks[k][1], acc,
                                Val(NatVal(toks[k + 1]), 1, FALSE)))
            ELSE [v |-> acc, next |-> k]
        RECURSIVE EvalSum(_, _)
        EvalSum(k, acc) ==
            IF k + 1 <= Len(toks) /\ toks[k] \in {<<"+">>, <<"-">>}
            THEN LET t == EvalTerm(k + 2, Val(NatVal(toks[k + 1]), 1, FALSE))
                 IN  EvalSum(t.next, Apply(toks[k][1], acc, t.v))
            ELSE acc
        first == EvalTerm(2, Val(NatVal(toks[1]), 1, FALSE))
    IN  EvalSum(first.next, first.v)

\* the text of a float that is no integer
FloatText(v) ==
    IF v.d \in {2, 4, 8}
    THEN LET scaled == ((IF v.n < 0 THEN -v.n ELSE v.n) * 1000) \div v.d
             whole == scaled \div 1000
             frac == scaled % 1000
             f3 == <<DigitChr(frac \div 100), DigitChr((frac \div 10) % 10),
                     DigitChr(frac % 10)>>
             RECURSIVE Trim(_)
             Trim(t) == IF t[Len(t)] = "0" THEN Trim(SubSeq(t, 1, Len(t) - 1)) ELSE t
         IN  (IF v.n < 0 THEN <<"-">> ELSE <<>>) \o NatText(whole) \o <<".">>
             \o Trim(f3)
    ELSE EvaluatorText.Unmodelled

\* f"Result: {result}", whole floats shown as integers
FormatResult(v) ==
    IF v.d = 1
    THEN EvaluatorText.ResultPrefix
           \o (IF v.n < 0 THEN <<"-">> \o NatText(-v.n) ELSE NatText(v.n))
    ELSE EvaluatorText.ResultPrefix \o FloatText(v)

\* (success, text)
safe_arithmetic_eval(expression) ==
    LET AllowedChars == Digits \cup {"+", "-", "*", "/", "(", ")", "."}
        cleaned == SelectSeq(expression, LAMBDA c : c # " ")
        toks0 == Tokens(cleaned)
        toks == IF Len(toks0) >= 2 /\ toks0[1] = <<"(">>
                   /\ toks0[Len(toks0)] = <<")">>
                THEN SubSeq(toks0, 2, Len(toks0) - 1) ELSE toks0
        \* a decimal integer literal of Python may not start with 0 unless it
        \* is all zeros
        LeadingZero(tk) ==
            Len(tk) > 1 /\ tk[1] = "0" /\ \E k \in 1..Len(tk) : tk[k] # "0"
        RECURSIVE IntPow(_, _)
        IntPow(b, e) == IF e = 0 THEN 1 ELSE b * IntPow(b, e - 1)
        \* num (op num)* as a token list
        IsChain ==
            /\ Len(toks) % 2 = 1
            /\ \A k \in 1..Len(toks) :
                  IF k % 2 = 1 THEN IsNumTok(toks[k])
                  ELSE toks[k] \in {<<"+">>, <<"-">>, <<"*">>, <<"/">>}
    IN  IF \E k \in 1..Len(cleaned) : cleaned[k] \notin AllowedChars
        THEN <<FALSE, EvaluatorText.InvalidChars>>
        ELSE IF Contains(cleaned, <<"/", "0">>)
        THEN <<FALSE, EvaluatorText.DivisionByZero>>
        ELSE IF \E k \in 1..Len(cleaned) : cleaned[k] = "."
        THEN <<TRUE, EvaluatorText.ResultPrefix \o EvaluatorText.Unmodelled>>
        ELSE IF \E k \in 1..Len(toks) : IsNumTok(toks[k]) /\ LeadingZero(toks[k])
        THEN <<FALSE, EvaluatorText.InvalidExprPrefix \o EvaluatorText.LeadingZeros>>
        ELSE IF Len(toks) = 4 /\ IsNumTok(toks[1]) /\ toks[2] = <<"*">>
                /\ toks[3] = <<"*">> /\ IsNumTok(toks[4])
        THEN <<TRUE, FormatResult(Val(IntPow(NatVal(toks[1]), NatVal(toks[4])), 1,
                                      FALSE))>>
        ELSE IF IsChain
        THEN <<TRUE, FormatResult(EvalChain(toks))>>
        ELSE <<TRUE, EvaluatorText.ResultPrefix \o EvaluatorText.Unmodelled>>

evaluate_basic_arithmetic(expression) ==
    LET r == safe_arithmetic_eval(expression)
    IN  IF r[1] THEN EvaluatorText.ArithmeticResult \o r[2] ELSE EvaluatorText.ArithmeticError \o r[2]

VARIABLES
    client,        \* OllamaClient.client: identity of the httpx connection object
    is_closed,     \* OllamaClient._is_closed
    client_torn,   \* whether aclose() has been called on the current object
    config,        \* OllamaClient.base_url and OllamaClient.timeout
    call,          \* the frame of the chat_stream call
    obs,           \* what an observer of the chat_stream call has seen
    conversation,  \* MathTutorChatbot.conversation
    corrections,   \* MathTutorChatbot.corrections: its entries
    corrections_type, \* the Python type of MathTutorChatbot.corrections
    file,          \* math_corrections.json
    tools,         \* MathTutorChatbot.tools
    system_prompt, \* MathTutorChatbot._system_prompt
    turn,          \* the frame of generate_response_with_tools
    mem            \* bookkeeping about turns and added corrections

vars == <<client, is_closed, client_torn, config, call, obs, conversation, corrections,
          corrections_type, file, tools, system_prompt, turn, mem>>

clientVars == <<client, is_closed, client_torn, config>>
orchVars == <<conversation, corrections, corrections_type, file, tools,
              system_prompt, turn, mem>>


(***************************************************************************)
(* Records of the state.                                                   *)
(***************************************************************************)
Ev(e, v) == [e |-> e, v |-> v]

\* exception: the exception being handled (e, and last_exception where it is read)
IdleCall ==
    [pc |-> "idle", caller |-> "none", retries |-> 0, retry_delay |-> 0,
     attempt |-> 0, exception |-> "none"]

NewCall(caller, retries, retry_delay) ==
    [pc |-> "attempt", caller |-> caller, retries |-> retries,
     retry_delay |-> retry_delay, attempt |-> 0, exception |-> "none"]

\* log: requests, reconnects, sleeps and the raise of the call, in order, or
\* the close() or reconnect() made last, with the number of aclose() calls;
\* yielded: the fragments the call has yielded; onlyConnection: every failure
\* so far was a ConnectError or a TimeoutException; doneSeen: a line whose
\* done flag is true has been read; lines: lines read; badLine: a line that
\* json.loads rejects has been read (kept for calls made directly); earlier:
\* an attempt of the call that failed had yielded fragments
NewObs ==
    [log |-> <<>>, yielded |-> <<>>, onlyConnection |-> TRUE,
     doneSeen |-> FALSE, lines |-> 0, badLine |-> FALSE, earlier |-> FALSE]

ChunkEvent(content) == [type |-> "chunk", content |-> content, tool |-> "none"]

ToolResultAsChunk(content, tool) == ChunkEvent(content)
ToolResultEvent(content, tool) ==
    [type |-> "tool_result", content |-> content, tool |-> tool]

\* pc: where generate_response_with_tools is suspended; tool: tool_name;
\* messages: the list generate_response passes to chat_stream; events: the
\* events the turn has yielded
IdleTurn ==
    [pc |-> "idle", input |-> <<>>, tool |-> "none", tool_result |-> None,
     messages |-> <<>>, full_response |-> <<>>, events |-> <<>>]

\* kind: none | teach | tool | generation | cleared; before: the history when the turn
\* began; raw: what tool.execute returned; added: the corrections in the
\* order add_correction received them; saved: the save of the last
\* add_correction wrote the file to its end
NewMem ==
    [kind |-> "none", before |-> <<>>, raw |-> None, added |-> <<>>,
     saved |-> FALSE]

Message(role, content) == [role |-> role, content |-> content]

\* config.py: the language of a ChatConfig when LANGUAGE is not set
ChatConfig == [language |-> <<"d", "e">>]

\* _build_system_prompt: the German persona text for a language that starts
\* with "de", the English one otherwise
build_system_prompt(cfg) ==
    IF Truthy(cfg.language) /\ StartsWith(cfg.language, <<"d", "e">>)
    THEN <<"<Du bist ein hilfreicher Mathe-Tutor ...>">>
    ELSE <<"<You are a helpful math tutor ...>">>

\* a payload without the persona message
get_messages_without_system(prompt, history) == history

\* get_messages_for_ollama: the persona message, then the history in order
\* (no message of the model has tool_calls or a tool_call_id)
get_messages_for_ollama(prompt, history) ==
    <<Message("system", prompt)>> \o history

(***************************************************************************)
(* OllamaClient.close and OllamaClient.reconnect.  httpx marks a client as *)
(* closed as soon as aclose() is entered, so the old object is torn down   *)
(* whether or not aclose() raises.                                         *)
(***************************************************************************)
TeardownOutcomes == {"ok", "raised"}
CreateOutcomes == {"ok", "raised"}

ClientState(c, closed, torn, raised) ==
    [client |-> c, is_closed |-> closed, torn |-> torn, raised |-> raised]

\* a reconnect() that opens the client without creating a connection object
ReconnectResultSameObject(c, closed, torn, td, cr) ==
    ClientState(c, FALSE, torn, FALSE)

\* reconnect(): the state it leaves and whether it raises
ReconnectResult(c, closed, torn, td, cr) ==
    LET torn1 == IF ~closed THEN TRUE ELSE torn
    IN  IF cr = "raised"
        THEN ClientState(c, closed, torn1, TRUE)
        ELSE ClientState(c + 1, FALSE, FALSE, FALSE)

\* an attempt that sends its request without looking at _is_closed
ReconnectIfClosedSkipped(c, closed, torn, td, cr) ==
    ClientState(c, closed, torn, FALSE)

\* lines 107-108: if self._is_closed: await self.reconnect()
ReconnectIfClosed(c, closed, torn, td, cr) ==
    IF closed THEN ReconnectResult(c, closed, torn, td, cr)
    ELSE ClientState(c, closed, torn, FALSE)

\* lines 45-47 and 58-59: how often aclose() is awaited
AcloseCalls(closed) == IF closed THEN 0 ELSE 1

\* a close() without the test of _is_closed and without the try
CloseResultUnguarded(c, closed, torn, td) ==
    IF td = "raised" THEN ClientState(c, closed, TRUE, TRUE)
    ELSE ClientState(c, TRUE, TRUE, FALSE)

\* close(): never raises
CloseResult(c, closed, torn, td) ==
    IF ~closed THEN ClientState(c, TRUE, TRUE, FALSE)
    ELSE ClientState(c, closed, torn, FALSE)

\* close() and reconnect() assign self.client and self._is_closed only
ApplyClient(r) ==
    /\ client' = r.client
    /\ is_closed' = r.is_closed
    /\ client_torn' = r.torn
    /\ config' = config

\* the finished generator of an earlier call is discarded
Close ==
    /\ call.pc \in {"idle", "returned", "raised"}
    /\ turn.pc = "idle"
    /\ \E td \in TeardownOutcomes :
          ApplyClient(CloseResult(client, is_closed, client_torn, td))
    /\ call' = IdleCall
    /\ obs' = [NewObs EXCEPT !.log = <<Ev("close()", AcloseCalls(is_closed))>>]
    /\ UNCHANGED orchVars

Reconnect ==
    /\ call.pc \in {"idle", "returned", "raised"}
    /\ turn.pc = "idle"
    /\ client < MaxClients
    /\ \E td \in TeardownOutcomes, cr \in CreateOutcomes :
          ApplyClient(ReconnectResult(client, is_closed, client_torn, td, cr))
    /\ call' = IdleCall
    /\ obs' = [NewObs EXCEPT
                 !.log = <<Ev("reconnect()", AcloseCalls(is_closed))>>]
    /\ UNCHANGED orchVars

(***************************************************************************)
(* generate_response: the body of its loop over the fragments.             *)
(***************************************************************************)
OnChunkPrepend(t, chunk) ==
    [t EXCEPT !.full_response = chunk \o @,
              !.events = Append(@, ChunkEvent(chunk))]
\* full_response += chunk; yield chunk (re-emitted as a chunk event)
OnChunk(t, chunk) ==
    [t EXCEPT !.full_response = @ \o chunk,
              !.events = Append(@, ChunkEvent(chunk))]

(***************************************************************************)
(* OllamaClient.chat_stream.                                               *)
(***************************************************************************)
\* a direct call of the client
CallChatStream(n, d) ==
    /\ call.pc \in {"idle", "returned", "raised"}
    /\ turn.pc = "idle"
    /\ client + n + 1 <= MaxClients
    /\ call' = NewCall("direct", n, d)
    /\ obs' = NewObs
    /\ UNCHANGED <<clientVars, orchVars>>

CurrentClient == ClientState(client, is_closed, client_torn, FALSE)

\* the observer's log after the events evs of frame c; it is kept for calls
\* made directly on the client
Logged(c, o, evs) ==
    IF c.caller = "direct" THEN [o EXCEPT !.log = @ \o evs] ELSE o

\* lines 134-171: what the except clause that catches `kind` in attempt
\* c.attempt leaves behind: the frame, the observations, the client
ExceptHandler(c, o, cl, kind, td, cr) ==
    LET clause == ExceptClause(kind)
        retry == c.attempt < c.retries
        d == Backoff(c.retry_delay, c.attempt)
        o1 == [o EXCEPT !.onlyConnection = @ /\ clause = "connection",
                        !.earlier = o.yielded # <<>>]
    IN  IF ~retry
        THEN [call |-> [c EXCEPT !.pc = "raised", !.exception = kind],
              obs |-> Logged(c, o1, <<Ev("raise", 0)>>),
              cl |-> cl]
        ELSE IF clause = "connection"
        THEN [call |-> [c EXCEPT !.pc = "sleeping", !.exception = kind],
              obs |-> Logged(c, o1, <<Ev("reconnect", 0), Ev("sleep", d)>>),
              cl |-> ReconnectResult(cl.client, cl.is_closed, cl.torn, td, cr)]
        ELSE [call |-> [c EXCEPT !.pc = "sleeping", !.exception = kind],
              obs |-> Logged(c, o1, <<Ev("sleep", d)>>),
              cl |-> cl]

ApplyHandled(h) ==
    /\ call' = h.call
    /\ obs' = h.obs
    /\ ApplyClient(h.cl)

\* lines 105-116: reconnect when closed, then open the stream
Attempt ==
    /\ call.pc = "attempt"
    /\ \E td \in TeardownOutcomes, cr \in CreateOutcomes,
          out \in Failures.establish \cup {"ok"} :
          LET rc == ReconnectIfClosed(client, is_closed, client_torn, td, cr)
              obs1 == IF is_closed
                      THEN Logged(call, obs, <<Ev("reconnect", 0)>>)
                      ELSE obs
              obs2 == Logged(call, obs1, <<Ev("request", call.attempt)>>)
          IN  IF rc.raised
              THEN \E td2 \in TeardownOutcomes, cr2 \in CreateOutcomes :
                      ApplyHandled(ExceptHandler(call, obs1,
                                                 rc, "OSError", td2, cr2))
              ELSE IF rc.torn
              THEN \E td2 \in TeardownOutcomes, cr2 \in CreateOutcomes :
                      ApplyHandled(ExceptHandler(call, obs2,
                                                 rc, "RuntimeError", td2, cr2))
              ELSE IF out = "ok"
              THEN /\ call' = [call EXCEPT !.pc = "reading"]
                   /\ obs' = obs2
                   /\ ApplyClient(rc)
              ELSE \E td2 \in TeardownOutcomes, cr2 \in CreateOutcomes :
                      ApplyHandled(ExceptHandler(call, obs2,
                                                 rc, out, td2, cr2))
    /\ UNCHANGED orchVars

\* lines 118-130: one line of the body
ReadLine(l) ==
    /\ call.pc = "reading"
    /\ obs.lines < MaxLines \/ LineAction(l) = "break"
    /\ LET act == LineAction(l)
           seen == obs.doneSeen \/ (l.shape = "object" /\ l.done)
           bad == call.caller = "direct" /\ l.shape = "malformed"
           obs1 == [obs EXCEPT !.lines = @ + 1, !.doneSeen = seen,
                               !.badLine = @ \/ bad]
       IN  CASE act = "skip" ->
                  /\ obs' = obs1
                  /\ UNCHANGED <<call, turn, clientVars>>
             [] act = "yield" ->
                  /\ obs' = [obs1 EXCEPT !.yielded = Append(@, l.content)]
                  /\ turn' = IF call.caller = "orch"
                             THEN OnChunk(turn, l.content) ELSE turn
                  /\ UNCHANGED <<call, clientVars>>
             [] act = "break" ->
                  /\ call' = [call EXCEPT !.pc = "returned"]
                  /\ obs' = obs1
                  /\ UNCHANGED <<turn, clientVars>>
             [] act = "raise" ->
                  /\ ApplyHandled(ExceptHandler(call, obs1, CurrentClient,
                                                "TypeError", "ok", "ok"))
                  /\ UNCHANGED turn
    /\ UNCHANGED <<conversation, corrections, corrections_type, file, tools, system_prompt, mem>>

\* aiter_lines() raises
ReadFails(kind) ==
    /\ call.pc = "reading"
    /\ \E td \in TeardownOutcomes, cr \in CreateOutcomes :
          ApplyHandled(ExceptHandler(call, obs, CurrentClient, kind, td, cr))
    /\ UNCHANGED orchVars

\* a return that raises the failure of an earlier attempt
EndOfBodyReraises ==
    /\ call.pc = "reading"
    /\ call' = [call EXCEPT !.pc = IF call.attempt > 0 THEN "raised"
                                   ELSE "returned"]
    /\ UNCHANGED <<obs, clientVars, orchVars>>

\* the body is exhausted: line 132, return
EndOfBody ==
    /\ call.pc = "reading"
    /\ call' = [call EXCEPT !.pc = "returned"]
    /\ UNCHANGED <<obs, clientVars, orchVars>>

\* a retry that starts the count of attempts over
WakeStartsOver ==
    /\ call.pc = "sleeping"
    /\ call' = [call EXCEPT !.pc = "attempt", !.attempt = 0,
                            !.exception = "none"]
    /\ obs' = NewObs
    /\ UNCHANGED <<clientVars, orchVars>>

\* asyncio.sleep returns, the except block ends: the next iteration of the loop
Wake ==
    /\ call.pc = "sleeping"
    /\ call' = [call EXCEPT !.pc = "attempt", !.attempt = @ + 1,
                            !.exception = "none"]
    /\ UNCHANGED <<obs, clientVars, orchVars>>

ClientStep ==
    \/ Attempt
    \/ \E l \in Lines : ReadLine(l)
    \/ \E k \in Failures.read : ReadFails(k)
    \/ EndOfBody
    \/ Wake

(***************************************************************************)
(* Texts of the orchestrator and of the message handler.                   *)
(***************************************************************************)
HandlerText ==
    [
     Korrektur |->
        <<"k", "o", "r", "r", "e", "k", "t", "u", "r", ":">>,
     Korrigiere |->
        <<"k", "o", "r", "r", "i", "g", "i", "e", "r", "e", ":">>,
     Colon |->
        <<":">>,
     Arrow |->
        <<"=", ">">>,
     \* the em dash and the u umlaut are one character each
     Ack |->
        <<"D", "a", "n", "k", "e", " ", "<em dash>", " ", "i", "c", "h", " ", "h", "a", "b", "e", " ", "d", "i", "e", " ", "K", "o", "r", "r", "e", "k", "t", "u", "r", " ", "g", "e", "l", "e", "r", "n", "t", " ", "u", "n", "d", " ", "w", "e", "r", "d", "e", " ", "s", "i", "e", " ", "b", "e", "i", " ", "p", "a", "s", "s", "e", "n", "d", "e", "n", " ", "A", "u", "f", "g", "a", "b", "e", "n", " ", "b", "e", "r", "<u umlaut>", "c", "k", "s", "i", "c", "h", "t", "i", "g", "e", "n", ".">>
    ]

ChatbotText ==
    [
     CorrectionApplied |->
        <<"[", "K", "o", "r", "r", "e", "k", "t", "u", "r", " ", "a", "n", "g", "e", "w", "e", "n", "d", "e", "t", "]", " ">>,
     OriginalResult |->
        <<"\n", "\n", "[", "O", "r", "i", "g", "i", "n", "a", "l", " ", "E", "r", "g", "e", "b", "n", "i", "s", ":", "]", "\n">>,
     UnknownTool |->
        <<"U", "n", "k", "n", "o", "w", "n", " ", "t", "o", "o", "l", ":", " ">>,
     ToolErrorOpen |->
        <<"T", "o", "o", "l", " ", "E", "r", "r", "o", "r", " ", "(">>,
     ToolErrorClose |->
        <<")", ":", " ">>,
     ErrorPrefix |->
        <<"E", "r", "r", "o", "r", ":", " ">>,
     NoneText |->
        <<"N", "o", "n", "e">>,
     BasicArithmetic |->
        <<"b", "a", "s", "i", "c", "_", "a", "r", "i", "t", "h", "m", "e", "t", "i", "c">>,
     Sympy |->
        <<"s", "y", "m", "p", "y">>,
     Numeric |->
        <<"n", "u", "m", "e", "r", "i", "c">>
    ]

\* str(e) of an exception, and the result text of a SymPy or mpmath run:
\* texts the model does not look into
ExcText(kind) == <<"<str(" \o kind \o ")>">>
LibraryText(tool_name, outcome) == <<"<" \o tool_name \o " " \o outcome \o ">">>

(***************************************************************************)
(* Utterances submitted to the message handler.                            *)
(***************************************************************************)
\* TeachQuoted is korrektur: 3 => "Drei" \ and a second line (neu): a
\* correction with quotes, a backslash and a newline
U ==
    [Sum |-> <<"2", "+", "2">>,
     Hi |-> <<"H", "i">>,
     Eq |-> <<"x", " ", "=", " ", "5">>,
     Pow |-> <<"1", "2", "^", "3">>,
     TeachSum |-> <<"k", "o", "r", "r", "e", "k", "t", "u", "r", ":", " ",
         "2", "+", "2", " ", "=", ">", " ", "E", "r", "g", "e", "b", "n",
         "i", "s", " ", "i", "s", "t", " ", "5", " ", "(", "S", "o", "n",
         "d", "e", "r", "r", "e", "g", "e", "l", ")">>,
     TeachNote |-> <<"k", "o", "r", "r", "e", "k", "t", "u", "r", ":", " ",
         "H", "i", "n", "w", "e", "i", "s">>,
     TeachResult |-> <<"k", "o", "r", "r", "i", "g", "i", "e", "r", "e", ":",
         " ", "R", "E", "S", "U", "L", "T", ":", " ", "4", " ", "=", ">",
         " ", "V", "i", "e", "r">>,
     TeachTwo |-> <<"k", "o", "r", "r", "e", "k", "t", "u", "r", ":", " ",
         "2", " ", "=", ">", " ", "Z", "w", "e", "i">>,
     TeachQuoted |-> <<"k", "o", "r", "r", "e", "k", "t", "u", "r", ":", " ",
         "3", " ", "=", ">", " ", "\"", "D", "r", "e", "i", "\"", " ", "\\",
         "\n", "(", "n", "e", "u", ")">>,
     SolveEq |-> <<"s", "o", "l", "v", "e", " ", "x", "+", "2", "=", "5">>,
     BareEq |-> <<"x", "+", "2", "=", "5">>,
     SolveCall |-> <<"s", "o", "l", "v", "e", "(", "x", "+", "2", "=", "5", ")">>,
     Assign |-> <<"y", "=", "2", "+", "3">>,
     SumEquals |-> <<"2", " ", "+", " ", "2", " ", "=", " ", "4">>,
     ParenProduct |-> <<"(", "2", ")", "*", "(", "3", ")">>,
     PowThenSum |-> <<"2", "*", "*", "1", "0", " ", "1", "+", "1">>,
     Group |-> <<"(", "1", "+", "2", ")">>,
     TwoChains |-> <<"2", "+", "3", " ", "a", "n", "d", " ", "1", "0", "*", "2", "0">>,
     Tie |-> <<"1", "+", "2", " ", "a", "n", "d", " ", "3", "+", "4">>,
     Empty |-> <<>>,
     Blank |-> <<" ", " ", " ">>,
     Seven |-> <<"7">>]

Utterances ==
    {U.Sum, U.Hi, U.Eq, U.Pow, U.TeachSum, U.TeachNote, U.TeachResult, U.TeachTwo}

\* inputs passed to generate_response_with_tools by a caller of the chatbot
TurnInputs ==
    {U.Sum, U.Hi, U.Eq, U.Pow, U.SolveEq, U.BareEq, U.SolveCall, U.Assign,
     U.SumEquals, U.ParenProduct, U.PowThenSum, U.Group, U.TwoChains, U.Tie,
     U.Empty, U.Blank, U.Seven}

(***************************************************************************)
(* The correction store.                                                   *)
(***************************************************************************)
Correction(pattern, correction) ==
    [pattern |-> pattern, correction |-> correction, explanation |-> <<>>]

\* the None that find_applicable_correction returns
NoCorrection == [pattern |-> None, correction |-> None, explanation |-> None]

\* the entry add_correction builds: pattern if pattern else ""
NewEntry(pattern, correction) ==
    Correction(IF Truthy(pattern) THEN pattern ELSE <<>>, correction)

\* an add_correction that replaces the stored entries of the same pattern
add_correction_upsert(cs, pattern, correction) ==
    <<NewEntry(pattern, correction)>>
      \o SelectSeq(cs, LAMBDA c : c.pattern # NewEntry(pattern, correction).pattern)

add_correction_append(cs, pattern, correction) ==
    cs \o <<NewEntry(pattern, correction)>>
\* self.corrections.insert(0, entry)
add_correction(cs, pattern, correction) ==
    <<NewEntry(pattern, correction)>> \o cs

(***************************************************************************)
(* json.dump(self.corrections, f, ensure_ascii=False, indent=2) and        *)
(* json.load(f), on the characters of math_corrections.json.  A JSON value *)
(* is [t, v]: t is str (v its characters), list (v its items), dict (v its *)
(* members <<key, value>> in order), atom (a number, true, false, null) or *)
(* invalid (what makes json.load raise).  \uXXXX escapes and fractions are *)
(* not read: no file of the model holds one.                               *)
(***************************************************************************)
\* a writer that escapes nothing
JsonEscapeNone(c) == <<c>>

\* the escapes json writes for the characters of the model
JsonEscape(c) ==
    CASE c = "\"" -> <<"\\", "\"">>
      [] c = "\\" -> <<"\\", "\\">>
      [] c = "\n" -> <<"\\", "n">>
      [] c = "\r" -> <<"\\", "r">>
      [] c = "\t" -> <<"\\", "t">>
      [] OTHER -> <<c>>

\* the character an escape of a JSON string stands for, "" for none
JsonUnescape(c) ==
    CASE c = "\"" -> "\""
      [] c = "\\" -> "\\"
      [] c = "/" -> "/"
      [] c = "n" -> "\n"
      [] c = "r" -> "\r"
      [] c = "t" -> "\t"
      [] OTHER -> ""

JsonKeys ==
    [pattern |-> <<"p", "a", "t", "t", "e", "r", "n">>,
     correction |-> <<"c", "o", "r", "r", "e", "c", "t", "i", "o", "n">>,
     explanation |-> <<"e", "x", "p", "l", "a", "n", "a", "t", "i", "o", "n">>]

\* json.dump of a list of entries with indent=2: each entry at indent 2, its
\* members at indent 4
JsonDump(cs) ==
    LET DumpString(s) ==
            <<"\"">> \o Join([k \in 1..Len(s) |-> JsonEscape(s[k])]) \o <<"\"">>
        DumpMember(key, s) ==
            <<" ", " ", " ", " ">> \o DumpString(key) \o <<":", " ">>
              \o DumpString(s)
        DumpEntry(c) ==
            <<" ", " ", "{", "\n">>
              \o DumpMember(JsonKeys.pattern, c.pattern) \o <<",", "\n">>
              \o DumpMember(JsonKeys.correction, c.correction) \o <<",", "\n">>
              \o DumpMember(JsonKeys.explanation, c.explanation) \o <<"\n">>
              \o <<" ", " ", "}">>
    IN  IF cs = <<>> THEN <<"[", "]">>
        ELSE <<"[", "\n">>
               \o Join([k \in 1..Len(cs) |->
                          DumpEntry(cs[k])
                            \o (IF k < Len(cs) THEN <<",", "\n">> ELSE <<"\n">>)])
               \o <<"]">>

\* json.loads: one value, with nothing but white space around it.  The
\* parsers give the value read from a position and the position after it.
JsonLoads(t) ==
    LET JVal(ty, v) == [t |-> ty, v |-> v]
        PRes(ok, val, next) == [ok |-> ok, val |-> val, next |-> next]
        PFail == PRes(FALSE, JVal("invalid", <<>>), 0)
        RECURSIVE SkipWs(_)
        SkipWs(i) ==
            IF i <= Len(t) /\ t[i] \in Whitespace THEN SkipWs(i + 1) ELSE i
        HasAt(i, word) ==
            /\ i + Len(word) - 1 <= Len(t)
            /\ SubSeq(t, i, i + Len(word) - 1) = word
        RECURSIVE DigitsEnd(_)
        DigitsEnd(i) ==
            IF i <= Len(t) /\ t[i] \in Digits THEN DigitsEnd(i + 1) ELSE i
        JsonLiterals ==
            {<<"n", "u", "l", "l">>, <<"t", "r", "u", "e">>,
             <<"f", "a", "l", "s", "e">>}
        \* the characters of a string from position i, after its opening quote
        RECURSIVE ParseChars(_, _)
        ParseChars(i, acc) ==
            IF i > Len(t) THEN PFail
            ELSE IF t[i] = "\"" THEN PRes(TRUE, JVal("str", acc), i + 1)
            ELSE IF t[i] = "\\"
                 THEN IF i + 1 <= Len(t) /\ JsonUnescape(t[i + 1]) # ""
                      THEN ParseChars(i + 2, Append(acc, JsonUnescape(t[i + 1])))
                      ELSE PFail
            ELSE IF t[i] \in {"\n", "\r", "\t"} THEN PFail
            ELSE ParseChars(i + 1, Append(acc, t[i]))
        RECURSIVE ParseValue(_)
        RECURSIVE ParseItems(_, _)
        RECURSIVE ParseMembers(_, _)
        ParseValue(i0) ==
            LET i == SkipWs(i0)
                j == SkipWs(i + 1)
                num == IF i <= Len(t) /\ t[i] = "-" THEN i + 1 ELSE i
            IN  IF i > Len(t) THEN PFail
                ELSE IF t[i] = "\"" THEN ParseChars(i + 1, <<>>)
                ELSE IF t[i] = "["
                     THEN IF j <= Len(t) /\ t[j] = "]"
                          THEN PRes(TRUE, JVal("list", <<>>), j + 1)
                          ELSE ParseItems(i + 1, <<>>)
                ELSE IF t[i] = "{"
                     THEN IF j <= Len(t) /\ t[j] = "}"
                          THEN PRes(TRUE, JVal("dict", <<>>), j + 1)
                          ELSE ParseMembers(i + 1, <<>>)
                ELSE IF \E w \in JsonLiterals : HasAt(i, w)
                     THEN PRes(TRUE, JVal("atom", <<>>),
                               i + Len(CHOOSE w \in JsonLiterals : HasAt(i, w)))
                ELSE IF DigitsEnd(num) > num
                     THEN PRes(TRUE, JVal("atom", <<>>), DigitsEnd(num))
                ELSE PFail
        ParseItems(i, acc) ==
            LET r == ParseValue(i)
                j == SkipWs(r.next)
            IN  IF ~r.ok \/ j > Len(t) THEN PFail
                ELSE IF t[j] = "," THEN ParseItems(j + 1, Append(acc, r.val))
                ELSE IF t[j] = "]"
                     THEN PRes(TRUE, JVal("list", Append(acc, r.val)), j + 1)
                ELSE PFail
        ParseMembers(i, acc) ==
            LET k == SkipWs(i)
                key == IF k <= Len(t) /\ t[k] = "\""
                       THEN ParseChars(k + 1, <<>>) ELSE PFail
                c == SkipWs(key.next)
                r == IF key.ok /\ c <= Len(t) /\ t[c] = ":"
                     THEN ParseValue(c + 1) ELSE PFail
                j == SkipWs(r.next)
                members == Append(acc, <<key.val.v, r.val>>)
            IN  IF ~r.ok \/ j > Len(t) THEN PFail
                ELSE IF t[j] = "," THEN ParseMembers(j + 1, members)
                ELSE IF t[j] = "}" THEN PRes(TRUE, JVal("dict", members), j + 1)
                ELSE PFail
        top == ParseValue(1)
    IN  IF top.ok /\ SkipWs(top.next) > Len(t) THEN top.val ELSE PFail.val

\* self.corrections as the model holds it: type is the Python type of the
\* value, entries its entries when it is a list of entries, and the one entry
\* when it is an entry that stands in the file without the list around it
Store(type, entries) == [type |-> type, entries |-> entries]

\* the store that holds a value json.load returned
StoreOf(x) ==
    LET \* d[key] of a dict value: the last member of that key
        Field(d, key) ==
            LET ks == {k \in 1..Len(d.v) : d.v[k][1] = key}
            IN  d.v[CHOOSE k \in ks : \A m \in ks : m <= k][2]
        \* a dict with the three keys of an entry, each a string
        IsEntry(d) ==
            /\ d.t = "dict"
            /\ {d.v[k][1] : k \in 1..Len(d.v)}
                 = {JsonKeys.pattern, JsonKeys.correction, JsonKeys.explanation}
            /\ \A k \in 1..Len(d.v) : d.v[k][2].t = "str"
        EntryOf(d) ==
            [pattern |-> Field(d, JsonKeys.pattern).v,
             correction |-> Field(d, JsonKeys.correction).v,
             explanation |-> Field(d, JsonKeys.explanation).v]
    IN  IF x.t = "list" /\ \A k \in 1..Len(x.v) : IsEntry(x.v[k])
        THEN Store("list", [k \in 1..Len(x.v) |-> EntryOf(x.v[k])])
        ELSE IF IsEntry(x) THEN Store("dict", <<EntryOf(x)>>)
        ELSE Store(IF x.t = "list" THEN "list of other values" ELSE x.t, <<>>)

\* _save_corrections: open("w") truncates the file, json.dump writes it, and
\* an exception of either is logged and swallowed
SaveOutcomes == {"ok", "open_failed", "write_failed"}

\* math_corrections.json: whether it exists, whether open("r") succeeds, and
\* its characters
NoFile == [exists |-> FALSE, readable |-> FALSE, text |-> <<>>]
FileWith(text) == [exists |-> TRUE, readable |-> TRUE, text |-> text]

\* a save that writes the entry added last instead of the whole list
save_corrections_newest(f, cs, outcome) ==
    [file |-> CASE outcome = "ok" -> FileWith(JsonDump(SubSeq(cs, 1, 1)))
                [] outcome = "open_failed" -> f
                [] outcome = "write_failed" ->
                      FileWith(SubSeq(JsonDump(cs), 1, Len(JsonDump(cs)) \div 2)),
     raised |-> FALSE]

\* a _save_corrections without its except clause
save_corrections_uncaught(f, cs, outcome) ==
    [file |-> CASE outcome = "ok" -> FileWith(JsonDump(cs))
                [] outcome = "open_failed" -> f
                [] outcome = "write_failed" ->
                      FileWith(SubSeq(JsonDump(cs), 1, Len(JsonDump(cs)) \div 2)),
     raised |-> outcome # "ok"]

\* lines 126-131: the file afterwards, and whether the call raised.  A write
\* that fails on the way leaves the first part of the text.
save_corrections(f, cs, outcome) ==
    [file |-> CASE outcome = "ok" -> FileWith(JsonDump(cs))
                [] outcome = "open_failed" -> f
                [] outcome = "write_failed" ->
                      FileWith(SubSeq(JsonDump(cs), 1, Len(JsonDump(cs)) \div 2)),
     raised |-> FALSE]

\* _load_corrections: the value of self.corrections after it
load_corrections(f) ==
    IF ~f.exists \/ ~f.readable \/ JsonLoads(f.text).t = "invalid"
    THEN Store("list", <<>>)
    ELSE StoreOf(JsonLoads(f.text))

MatchesAnyPattern(c, text) == Contains(ToLower(text), ToLower(c.pattern))
\* the test of the loop body: a pattern that is present and occurs in text
Matches(c, text) ==
    /\ c.pattern # <<>>
    /\ Contains(ToLower(text), ToLower(c.pattern))

RECURSIVE find_applicable_correction(_, _)
find_applicable_correction(cs, text) ==
    IF cs = <<>> THEN NoCorrection
    ELSE IF Matches(Head(cs), text) THEN Head(cs)
    ELSE find_applicable_correction(Tail(cs), text)

(***************************************************************************)
(* MathTutorChatbot._execute_tool.                                         *)
(***************************************************************************)
ToolNames == {"basic_arithmetic", "sympy", "numeric"}

NameText(tool_name) ==
    CASE tool_name = "basic_arithmetic" -> ChatbotText.BasicArithmetic
      [] tool_name = "sympy" -> ChatbotText.Sympy
      [] tool_name = "numeric" -> ChatbotText.Numeric

\* the tool maps a chatbot is constructed with.  What a tool registered
\* under a name does: the built-in strategy, or an injected one that returns
\* None, returns "", or raises; absent: no entry
ToolMaps ==
    {[n \in ToolNames |-> s] :
        s \in {"builtin", "returns_none", "returns_empty", "raises", "absent"}}

\* timeout=5.0 and timeout=3.0 of the asyncio.wait_for calls
SymPyDeadline == 5
NumericDeadline == 3

\* asyncio.wait_for(asyncio.to_thread(f, ...), timeout=deadline), run the
\* library call in the thread: the time units it takes and whether it
\* reports success.  "ok" and "error" stand for the tuples (True, result)
\* and (False, result), "timeout" for asyncio.TimeoutError.
wait_for_unbounded(run, deadline) == IF run.success THEN "ok" ELSE "error"
wait_for(run, deadline) ==
    IF run.took > deadline THEN "timeout"
    ELSE IF run.success THEN "ok" ELSE "error"

\* how the library calls of a turn end: safe_numeric_eval and safe_sympy_eval
EngineOutcomes ==
    LET Runs == [took : {1, 4, 6}, success : BOOLEAN]
    IN  [numeric : Runs, sympy : Runs]

\* both library calls return at once, with the same report
ToolOutcomes == {o \in EngineOutcomes : o.numeric = o.sympy /\ o.sympy.took = 1}

\* what the detectors and the arithmetic evaluator compute from an utterance:
\* tool_name of _detect_tool_intent ("none" for None), basic what
\* detect_basic_arithmetic returns, expr of _execute_tool,
\* and what ArithmeticTool.execute returns for the detected expression
AnalysisOf(tool_name, basic, other) ==
    [tool_name |-> tool_name,
     basic |-> basic,
     expr |-> IF tool_name = "basic_arithmetic" THEN basic ELSE other,
     arithmetic |-> IF Truthy(basic) THEN evaluate_basic_arithmetic(basic)
                    ELSE None]

Analysis(user_input) ==
    AnalysisOf(detect_tool_intent(user_input),
               detect_basic_arithmetic(user_input),
               detect_math_expression(user_input))

\* computed once for the utterances of the model
Analysed == [u \in Utterances \cup TurnInputs |-> Analysis(u)]

\* the result of safe_sympy_eval stands in the text as LibraryText
evaluate_with_sympy(o) ==
    CASE wait_for(o.sympy, SymPyDeadline) = "ok" ->
            EvaluatorText.SymPyEvaluation \o LibraryText("sympy", "ok")
      [] wait_for(o.sympy, SymPyDeadline) = "error" ->
            EvaluatorText.SymPyError \o LibraryText("sympy", "error")
      [] wait_for(o.sympy, SymPyDeadline) = "timeout" ->
            EvaluatorText.SymPyError \o EvaluatorText.EvaluationTimedOut

\* the second wait_for is reached when the first returns (False, result);
\* a TimeoutError of either is caught by the one except clause
evaluate_numerically(o) ==
    LET first == wait_for(o.numeric, NumericDeadline)
        second == wait_for(o.sympy, SymPyDeadline)
    IN  CASE first = "ok" ->
                EvaluatorText.NumericResult \o LibraryText("numeric", "ok")
          [] first = "timeout" ->
                EvaluatorText.EvaluationError \o EvaluatorText.CalculationTimedOut
          [] first = "error" /\ second = "ok" ->
                EvaluatorText.SymbolicResult \o LibraryText("sympy", "ok")
          [] first = "error" /\ second = "error" ->
                EvaluatorText.EvaluationError \o LibraryText("sympy", "error")
          [] first = "error" /\ second = "timeout" ->
                EvaluatorText.EvaluationError \o EvaluatorText.CalculationTimedOut

\* tool.execute(expr) of a built-in strategy, a the analysis of the utterance
BuiltinExecute(tool_name, a, outcome) ==
    CASE tool_name = "basic_arithmetic" -> a.arithmetic
      [] tool_name = "sympy" -> evaluate_with_sympy(outcome)
      [] tool_name = "numeric" -> evaluate_numerically(outcome)

\* tool.execute(expr)
Execute(strategy, tool_name, a, outcome) ==
    CASE strategy = "builtin" ->
            [raised |-> FALSE, result |-> BuiltinExecute(tool_name, a, outcome)]
      [] strategy = "returns_none" -> [raised |-> FALSE, result |-> None]
      [] strategy = "returns_empty" -> [raised |-> FALSE, result |-> <<>>]
      [] strategy = "raises" -> [raised |-> TRUE, result |-> None]

CombinedWithoutOriginal(corr_text, result) == ChatbotText.CorrectionApplied \o corr_text
\* the f-string of line 261; f"{result}" of None is the text None
Combined(corr_text, result) ==
    ChatbotText.CorrectionApplied \o corr_text \o ChatbotText.OriginalResult
      \o (IF result = None THEN ChatbotText.NoneText ELSE result)

\* a lookup that asks about the tool result before the utterance
ApplicableOutputFirst(cs, user_input, result) ==
    LET first == find_applicable_correction(cs, IF Truthy(result) THEN result ELSE <<>>)
    IN  IF first # NoCorrection THEN first
        ELSE find_applicable_correction(cs, user_input)

\* find(user_input) or find(result or "")
Applicable(cs, user_input, result) ==
    LET first == find_applicable_correction(cs, user_input)
    IN  IF first # NoCorrection THEN first
        ELSE find_applicable_correction(cs, IF Truthy(result) THEN result ELSE <<>>)

\* tool: tool_name; value: what _execute_tool returns; raw: what tool.execute
\* returned
ToolReturn(tool_name, value, raw) ==
    [tool |-> tool_name, value |-> value, raw |-> raw]

\* lines 254-264, r what tool.execute did
Annotate(cs, tool_name, user_input, r) ==
    IF r.raised
    THEN ToolReturn(tool_name,
                    ChatbotText.ToolErrorOpen \o NameText(tool_name) \o ChatbotText.ToolErrorClose
                      \o ExcText("ToolFailure"),
                    None)
    ELSE IF Applicable(cs, user_input, r.result) # NoCorrection
    THEN ToolReturn(tool_name,
                    Combined(Applicable(cs, user_input, r.result).correction,
                             r.result),
                    r.result)
    ELSE ToolReturn(tool_name, r.result, r.result)

\* an _execute_tool without its try: the exception ends the call
execute_tool_without_barrier(tls, store, tool_name, user_input, a, outcome) ==
    IF tls[tool_name] = "absent"
    THEN ToolReturn(tool_name, ChatbotText.UnknownTool \o NameText(tool_name), None)
    ELSE IF ~Truthy(a.expr) THEN ToolReturn(tool_name, None, None)
    ELSE IF store.type = "dict" \/ tls[tool_name] = "raises"
    THEN ToolReturn(tool_name, None, None)
    ELSE Annotate(store.entries, tool_name, user_input,
                  Execute(tls[tool_name], tool_name, a, outcome))

\* _execute_tool, a the analysis of user_input and store self.corrections.
\* Iterating a dict yields its keys, and c.get of a key raises
\* AttributeError at line 152, inside the try of _execute_tool.
execute_tool(tls, store, tool_name, user_input, a, outcome) ==
    IF tls[tool_name] = "absent"
    THEN ToolReturn(tool_name, ChatbotText.UnknownTool \o NameText(tool_name), None)
    ELSE IF ~Truthy(a.expr) THEN ToolReturn(tool_name, None, None)
    ELSE IF store.type = "dict" /\ tls[tool_name] # "raises"
    THEN ToolReturn(tool_name,
                    ChatbotText.ToolErrorOpen \o NameText(tool_name)
                      \o ChatbotText.ToolErrorClose \o ExcText("AttributeError"),
                    None)
    ELSE Annotate(store.entries, tool_name, user_input,
                  Execute(tls[tool_name], tool_name, a, outcome))

\* lines 279-283 of generate_response_with_tools: tool_name and tool_result
Dispatch(tls, store, user_input, a, outcome) ==
    IF a.tool_name = "none" THEN ToolReturn("none", None, None)
    ELSE execute_tool(tls, store, a.tool_name, user_input, a, outcome)

(***************************************************************************)
(* MessageHandler.handle_message: the teaching command.                    *)
(***************************************************************************)
IsBlank(message) == Strip(message) = <<>>

IsTeaching(message) ==
    LET lowered == Strip(message)
    IN  StartsWith(lowered, HandlerText.Korrektur) \/ StartsWith(lowered, HandlerText.Korrigiere)

\* s.split(sep, 1) of a text that contains sep
SplitOnce(s, sep) ==
    LET i == Find(s, sep)
    IN  <<SubSeq(s, 1, i - 1), SubSeq(s, i + Len(sep), Len(s))>>

\* lines 37-46: the arguments of add_correction
ParseCorrection(message) ==
    LET payload == Strip(SplitOnce(message, HandlerText.Colon)[2])
        parts == SplitOnce(payload, HandlerText.Arrow)
    IN  IF Contains(payload, HandlerText.Arrow)
        THEN [pattern |-> Strip(parts[1]), correction |-> Strip(parts[2])]
        ELSE [pattern |-> None, correction |-> payload]

TeachCorrection(u, outcome) ==
    /\ turn.pc = "idle"
    /\ ~IsBlank(u)
    /\ IsTeaching(u)
    /\ Len(corrections) < MaxCorrections
    /\ LET p == ParseCorrection(u)
       IN  IF corrections_type = "list"
           THEN /\ corrections' = add_correction(corrections, p.pattern,
                                                 p.correction)
                /\ file' = save_corrections(file, corrections', outcome).file
                /\ mem' = [mem EXCEPT !.kind =
                                        IF save_corrections(file, corrections',
                                                            outcome).raised
                                        THEN "teach_raised" ELSE "teach",
                                      !.before = conversation,
                                      !.raw = None,
                                      !.added = Append(@, NewEntry(p.pattern,
                                                                   p.correction)),
                                      !.saved = outcome = "ok"]
           \* a value without insert(): AttributeError, caught at lines 50-52
           ELSE /\ corrections_type \in {"dict", "str", "atom"}
                /\ mem' = [mem EXCEPT !.kind = "teach_raised",
                                      !.before = conversation, !.raw = None]
                /\ UNCHANGED <<corrections, file>>
    /\ corrections_type' = corrections_type
    /\ UNCHANGED <<clientVars, call, obs, conversation, tools, system_prompt, turn>>

(***************************************************************************)
(* MathTutorChatbot.generate_response_with_tools, as the handler drives    *)
(* it: from the call to the first event, then from resumption to the next  *)
(* event or to the end of the generator.                                   *)
(***************************************************************************)
IsTurn(u) == ~IsBlank(u) /\ ~IsTeaching(u)

\* lines 284-286: the tool result t is truthy
ToolTurnBegins(u, t) ==
    /\ turn.pc = "idle"
    /\ Truthy(t.value)
    /\ Len(conversation) + 1 <= MaxHistory
    /\ turn' = [IdleTurn EXCEPT
                   !.pc = "tool_yielded", !.input = u, !.tool = t.tool,
                   !.tool_result = t.value,
                   !.events = <<ToolResultEvent(t.value, t.tool)>>]
    /\ mem' = [mem EXCEPT !.kind = "tool", !.before = conversation, !.raw = t.raw]
    /\ UNCHANGED <<clientVars, call, obs, conversation, corrections,
                   corrections_type, file, tools, system_prompt>>

\* the handler passes on a message that is neither blank nor a teaching
\* command
StartToolTurn(u, outcome) ==
    /\ IsTurn(u)
    /\ ToolTurnBegins(u, Dispatch(tools, Store(corrections_type, corrections),
                                  u, Analysed[u], outcome))

\* line 288 and the return
ResumeToolTurn ==
    /\ turn.pc = "tool_yielded"
    /\ conversation' = Append(conversation, Message("assistant", turn.tool_result))
    /\ turn' = [turn EXCEPT !.pc = "idle"]
    /\ UNCHANGED <<clientVars, call, obs, corrections, corrections_type, file, tools, system_prompt, mem>>

\* lines 290-291 and generate_response up to the call of chat_stream: no tool
\* is selected, or the tool result t is falsy
GenerationBegins(u, t) ==
    /\ turn.pc = "idle"
    /\ ~Truthy(t.value)
    /\ client + DefaultRetries + 1 <= MaxClients
    /\ conversation' = Append(conversation, Message("user", u))
    /\ turn' = [IdleTurn EXCEPT
                   !.pc = "streaming", !.input = u, !.tool = t.tool,
                   !.tool_result = t.value,
                   !.messages = get_messages_for_ollama(system_prompt,
                                                        conversation')]
    /\ call' = NewCall("orch", DefaultRetries, DefaultRetryDelay)
    /\ obs' = NewObs
    /\ mem' = [mem EXCEPT !.kind = "generation", !.before = conversation,
                          !.raw = t.raw]
    /\ UNCHANGED <<clientVars, corrections, corrections_type, file, tools, system_prompt>>

StartGeneration(u, outcome) ==
    /\ IsTurn(u)
    /\ Len(conversation) + 2 <= MaxHistory
    /\ GenerationBegins(u, Dispatch(tools, Store(corrections_type, corrections),
                                    u, Analysed[u], outcome))

\* chat_stream returned: line 210
FinishStream ==
    /\ turn.pc = "streaming"
    /\ call.pc = "returned"
    /\ conversation' = Append(conversation, Message("assistant", turn.full_response))
    /\ turn' = [turn EXCEPT !.pc = "idle"]
    /\ call' = IdleCall
    /\ obs' = NewObs
    /\ UNCHANGED <<clientVars, corrections, corrections_type, file, tools, system_prompt, mem>>

\* chat_stream raised: lines 204-207
YieldError ==
    /\ turn.pc = "streaming"
    /\ call.pc = "raised"
    /\ turn' = [turn EXCEPT
                   !.pc = "error_yielded",
                   !.events = Append(@, ChunkEvent(ChatbotText.ErrorPrefix
                                                     \o ExcText(call.exception)))]
    /\ call' = IdleCall
    /\ obs' = NewObs
    /\ UNCHANGED <<clientVars, conversation, corrections, corrections_type, file, tools, system_prompt, mem>>

\* resumed after the error chunk: line 210
ResumeAfterError ==
    /\ turn.pc = "error_yielded"
    /\ conversation' = Append(conversation, Message("assistant", turn.full_response))
    /\ turn' = [turn EXCEPT !.pc = "idle"]
    /\ UNCHANGED <<clientVars, call, obs, corrections, corrections_type, file, tools, system_prompt, mem>>

\* a clear that empties the correction list as well
ClearConversationAndStore ==
    /\ turn.pc = "idle"
    /\ conversation # <<>>
    /\ conversation' = <<>>
    /\ corrections' = <<>>
    /\ turn' = IdleTurn
    /\ mem' = [NewMem EXCEPT !.kind = "cleared", !.added = mem.added]
    /\ UNCHANGED <<clientVars, call, obs, corrections_type, file, tools,
                   system_prompt>>

\* the record of the last turn is dropped with the history
ClearConversation ==
    /\ turn.pc = "idle"
    /\ conversation # <<>>
    /\ conversation' = <<>>
    /\ turn' = IdleTurn
    /\ mem' = [NewMem EXCEPT !.kind = "cleared", !.added = mem.added]
    /\ UNCHANGED <<clientVars, call, obs, corrections, corrections_type, file, tools, system_prompt>>

(***************************************************************************)
(* Initial states and specifications.                                      *)
(***************************************************************************)
\* OllamaClient.__init__
InitClient ==
    /\ client = 0
    /\ is_closed = FALSE
    /\ client_torn = FALSE
    /\ config = [base_url |-> "http://localhost:11434", timeout |-> 30]
    /\ call = IdleCall
    /\ obs = NewObs

\* MathTutorChatbot.__init__
InitChatbot(stores) ==
    /\ conversation = <<>>
    /\ corrections \in stores
    /\ corrections_type = "list"
    /\ file = IF corrections = <<>> THEN NoFile
              ELSE FileWith(JsonDump(corrections))
    /\ tools \in ToolMaps
    /\ system_prompt = build_system_prompt(ChatConfig)
    /\ turn = IdleTurn
    /\ mem = NewMem

\* ChatbotService builds the chatbot without a tool map: the built-in one
BuiltinTools == [n \in ToolNames |-> "builtin"]

\* the client driven directly
NextClient ==
    \/ \E n \in 0..MaxRetries, d \in 1..MaxDelay : CallChatStream(n, d)
    \/ Close
    \/ Reconnect
    \/ ClientStep

InitDirect == InitClient /\ InitChatbot({<<>>}) /\ tools = BuiltinTools

SpecClient == InitDirect /\ [][NextClient]_vars

\* the client driven directly, every call with the default retry_delay
NextClientLive ==
    \/ \E n \in 0..MaxRetries : CallChatStream(n, DefaultRetryDelay)
    \/ Close
    \/ Reconnect
    \/ ClientStep

\* every request, every read of the body and every asyncio.sleep of a call
\* comes to an end: a call that can take a step takes one
SpecClientLive ==
    InitDirect /\ [][NextClientLive]_vars /\ WF_vars(ClientStep)

\* the chatbot answering turns: tool turns and generation turns
Init ==
    /\ InitClient
    \* a store that _load_corrections finds in math_corrections.json
    /\ InitChatbot({<<>>, <<Correction(<<"2", "+", "2">>,
                                      <<"F", "u", "e", "n", "f">>)>>})

Next ==
    \/ \E u \in Utterances, o \in ToolOutcomes : StartToolTurn(u, o)
    \/ ResumeToolTurn
    \/ \E u \in Utterances, o \in ToolOutcomes : StartGeneration(u, o)
    \/ ClientStep
    \/ FinishStream
    \/ YieldError
    \/ ResumeAfterError
    \/ ClearConversation

Spec == Init /\ [][Next]_vars

\* the consumer of the events stops asking for the next one: the generator
\* stays suspended at its yield (the tool_result event, a chunk, or the
\* error chunk) and is closed there, so no statement after that yield runs;
\* closing it closes the generator of chat_stream and its response
AbandonTurn ==
    /\ \/ turn.pc \in {"tool_yielded", "error_yielded"}
       \/ turn.pc = "streaming" /\ call.pc = "reading" /\ turn.events # <<>>
    /\ turn' = [turn EXCEPT !.pc = "idle"]
    /\ call' = IdleCall
    /\ obs' = NewObs
    /\ UNCHANGED <<clientVars, conversation, corrections, corrections_type,
                   file, tools, system_prompt, mem>>

\* the chatbot answering turns for a consumer that may stop early
NextAbandon ==
    \/ Next
    \/ AbandonTurn

SpecAbandon == Init /\ [][NextAbandon]_vars

\* handle_message is a coroutine of the one MessageHandler, on the one
\* chatbot of the service, and takes no lock: while an invocation is
\* suspended at a read of the response body, a second invocation runs; here
\* it runs a tool turn to its end (lines 279-288 of
\* generate_response_with_tools)
ConcurrentToolTurn(u, outcome) ==
    /\ IsTurn(u)
    /\ turn.pc = "streaming"
    /\ call.pc = "reading"
    /\ Len(conversation) + 1 <= MaxHistory
    /\ conversation'
         = Append(conversation,
                  Message("assistant",
                          Dispatch(tools, Store(corrections_type, corrections),
                                   u, Analysed[u], outcome).value))
    /\ Truthy(conversation'[Len(conversation')].content)
    /\ UNCHANGED <<clientVars, call, obs, corrections, corrections_type,
                   file, tools, system_prompt, turn, mem>>

\* the chatbot answering the turns of invocations that may overlap
NextConcurrent ==
    \/ Next
    \/ \E u \in {U.Sum, U.Eq}, o \in ToolOutcomes : ConcurrentToolTurn(u, o)

SpecConcurrent == Init /\ [][NextConcurrent]_vars

\* the chatbot taught corrections and answering arithmetic and SymPy turns

NextStore ==
    \/ \E u \in Utterances \ {U.Pow}, o \in SaveOutcomes : TeachCorrection(u, o)
    \/ \E u \in Utterances \ {U.Pow}, o \in ToolOutcomes : StartToolTurn(u, o)
    \/ ResumeToolTurn
    \/ ClearConversation

\* no math_corrections.json when the chatbot is constructed
InitStore == InitClient /\ InitChatbot({<<>>})

SpecStore == InitStore /\ [][NextStore]_vars

\* the chatbot of ChatbotService with one utterance of each kind and a
\* writable math_corrections.json, up to the first generation turn of a
\* history: a history that holds results of tool turns goes to the backend
NextHistory ==
    \/ TeachCorrection(U.TeachSum, "ok")
    \/ \E o \in {x \in ToolOutcomes : x.sympy.success} : StartToolTurn(U.Sum, o)
    \/ ResumeToolTurn
    \/ /\ Len(conversation) + 2 <= MaxHistory + 1
       /\ \A k \in 1..Len(conversation) : conversation[k].role # "user"
       /\ \E o \in {x \in ToolOutcomes : x.sympy.success} :
             GenerationBegins(U.Hi, Dispatch(tools,
                                             Store(corrections_type, corrections),
                                             U.Hi, Analysed[U.Hi], o))
    \/ ClientStep
    \/ FinishStream
    \/ YieldError
    \/ ResumeAfterError
    \/ ClearConversation

SpecHistory == InitDirect /\ [][NextHistory]_vars

(***************************************************************************)
(* The correction store across processes: teaching commands, and the       *)
(* construction of a new MathTutorChatbot from math_corrections.json.      *)
(***************************************************************************)
\* what math_corrections.json may be when the first process starts: absent,
\* unreadable, empty, an empty list, a list of one entry, that list cut off,
\* and one entry without the list around it
BackingFiles ==
    LET e == Correction(<<"2", "+", "2">>, <<"F", "u", "e", "n", "f">>)
        d == JsonDump(<<e>>)
    IN  {NoFile, [NoFile EXCEPT !.exists = TRUE], FileWith(<<>>),
         FileWith(JsonDump(<<>>)), FileWith(d),
         FileWith(SubSeq(d, 1, Len(d) - 2)),
         FileWith(SubSeq(d, 3, Len(d) - 2))}

\* the process ends and a new one constructs its chatbot
Restart ==
    /\ turn.pc = "idle"
    /\ mem.kind # "constructed"
    /\ conversation' = <<>>
    /\ corrections' = load_corrections(file).entries
    /\ corrections_type' = load_corrections(file).type
    /\ turn' = IdleTurn
    /\ system_prompt' = build_system_prompt(ChatConfig)
    /\ mem' = [NewMem EXCEPT !.kind = "constructed"]
    /\ UNCHANGED <<clientVars, call, obs, file, tools>>

\* lines 57-62 of __init__: a new chatbot that loads the file
InitPersist ==
    /\ InitClient
    /\ tools = BuiltinTools
    /\ system_prompt = build_system_prompt(ChatConfig)
    /\ file \in BackingFiles
    /\ conversation = <<>>
    /\ corrections = load_corrections(file).entries
    /\ corrections_type = load_corrections(file).type
    /\ turn = IdleTurn
    /\ mem = [NewMem EXCEPT !.kind = "constructed"]

NextPersist ==
    \/ \E u \in {U.TeachSum, U.TeachNote, U.TeachQuoted}, o \in SaveOutcomes :
          TeachCorrection(u, o)
    \/ Restart

SpecPersist == InitPersist /\ [][NextPersist]_vars

\* the first turn of a chatbot whose generate_response_with_tools is called
\* directly, with any input, any tool map and any end of the library calls
FirstToolTurn(u, outcome) ==
    /\ conversation = <<>>
    /\ ToolTurnBegins(u, Dispatch(tools, Store(corrections_type, corrections),
                                  u, Analysed[u], outcome))

FirstGeneration(u, outcome) ==
    /\ conversation = <<>>
    /\ GenerationBegins(u, Dispatch(tools, Store(corrections_type, corrections),
                                    u, Analysed[u], outcome))

NextTurn ==
    \/ \E u \in TurnInputs, o \in EngineOutcomes : FirstToolTurn(u, o)
    \/ ResumeToolTurn
    \/ \E u \in TurnInputs, o \in EngineOutcomes : FirstGeneration(u, o)

\* the chatbot constructed with no math_corrections.json, with one that holds
\* a list of one entry, or with one that holds the entry without the list
InitTurn ==
    /\ InitClient
    /\ tools \in ToolMaps
    /\ system_prompt = build_system_prompt(ChatConfig)
    /\ file \in {f \in BackingFiles :
                    f = NoFile \/ load_corrections(f).entries # <<>>}
    /\ conversation = <<>>
    /\ corrections = load_corrections(file).entries
    /\ corrections_type = load_corrections(file).type
    /\ turn = IdleTurn
    /\ mem = NewMem

SpecTurn == InitTurn /\ [][NextTurn]_vars

(***************************************************************************)
(* Properties of OllamaClient.chat_stream.                                 *)
(***************************************************************************)
\* what a call with retries = n and retry_delay = d does from attempt k on
\* when every attempt fails with a connect error or a timeout
RECURSIVE RetrySchedule(_, _, _)
RetrySchedule(n, d, k) ==
    IF k = n THEN <<Ev("request", k), Ev("raise", 0)>>
    ELSE <<Ev("request", k), Ev("reconnect", 0), Ev("sleep", d * 2^k)>>
         \o RetrySchedule(n, d, k + 1)

\* the log of a call without the reconnect of a client found closed
SinceFirstRequest(log) ==
    IF log # <<>> /\ log[1] = Ev("reconnect", 0) THEN Tail(log) ELSE log

\* C1: a chat_stream call with retries = n whose attempts all fail with a
\* connect error or a timeout makes exactly n + 1 requests, reconnects and
\* sleeps retry_delay * 2^k after failed attempt k < n, and after attempt n
\* re-raises that failure without a further sleep or reconnect.
C1_RetriesWithBackoff ==
    (call.pc = "raised" /\ obs.onlyConnection) =>
        /\ SinceFirstRequest(obs.log) = RetrySchedule(call.retries, call.retry_delay, 0)
        /\ call.exception \in {"ConnectError", "TimeoutException"}
        /\ call.attempt = call.retries

\* retries = 3 and retry_delay = 1: four requests, sleeps 1, 2, 4, then the raise
C1_Witness ==
    /\ call.pc = "raised"
    /\ obs.onlyConnection
    /\ call.retries = DefaultRetries
    /\ call.retry_delay = DefaultRetryDelay
    /\ obs.log = <<Ev("request", 0), Ev("reconnect", 0), Ev("sleep", 1),
                   Ev("request", 1), Ev("reconnect", 0), Ev("sleep", 2),
                   Ev("request", 2), Ev("reconnect", 0), Ev("sleep", 4),
                   Ev("request", 3), Ev("raise", 0)>>

\* the failures of the connection: it cannot be established, it times out, or
\* it is lost while the body is read
ConnectionFailures == {"ConnectError", "TimeoutException", "ReadError"}

\* C2: whenever an attempt fails with a connection failure or a timeout, while
\* the stream is established or while it is read, and another attempt follows,
\* reconnect has run before that attempt: the old connection object is torn
\* down, and it is replaced by a fresh one unless creating that one fails.
C2_ReconnectBeforeRetry ==
    [][(/\ call.pc \in {"attempt", "reading"}
        /\ call'.pc = "sleeping"
        /\ call'.exception \in ConnectionFailures)
       => (client' # client \/ client_torn')]_vars

\* C10: once a line whose done flag is true has been read, the call reads no
\* further line, yields no further fragment, does not retry and does not
\* raise: it returns normally.
C10_DoneStopsStream ==
    [][(obs.doneSeen /\ obs'.doneSeen)
       => (/\ obs'.lines = obs.lines
           /\ obs'.yielded = obs.yielded
           /\ call'.pc \in {"returned", "idle"})]_vars

\* C11: reading a line that json.loads rejects, or a line whose
\* message.content is empty, changes nothing but the count of lines read: no
\* fragment is yielded, the attempt goes on reading, there is no retry, no
\* sleep, no reconnect and no raise, so the fragments of the lines before and
\* after it are yielded as if the line were not there.
C11_MalformedLineSkipped ==
    [][\A l \in Lines :
          (/\ ReadLine(l)
           /\ \/ l.shape = "malformed"
              \/ l.shape = "object" /\ l.msg = "content" /\ l.content = <<>>)
          => /\ call' = call
             /\ call.pc = "reading"
             /\ obs'.yielded = obs.yielded
             /\ obs'.log = obs.log
             /\ obs'.onlyConnection = obs.onlyConnection
             /\ UNCHANGED <<clientVars, turn>>]_vars

\* a first attempt read a rejected line and then "Hi", and returned
C11_Witness ==
    /\ call.pc = "returned"
    /\ call.attempt = 0
    /\ obs.badLine
    /\ obs.lines = 2
    /\ obs.yielded = <<Fragment.Hi>>
    /\ obs.log = <<Ev("request", 0)>>

\* C12: when an attempt fails with a non-2xx status or with any failure that
\* is neither a connect error nor a timeout, then, if retries are left, the
\* call sleeps retry_delay * 2^attempt and the connection object is the one
\* the attempt used (no reconnect); if none is left, the failure is raised
\* to the caller, with no sleep.
C12_OtherFailuresRetried ==
    [][(/\ call.pc \in {"attempt", "reading"}
        /\ call'.pc \in {"sleeping", "raised"}
        /\ call'.exception \notin {"ConnectError", "TimeoutException"})
       => /\ call'.attempt = call.attempt
          /\ (call'.pc = "sleeping") <=> (call.attempt < call.retries)
          /\ obs'.log # <<>>
          /\ obs'.log[Len(obs'.log)]
               = (IF call.attempt < call.retries
                  THEN Ev("sleep", call.retry_delay * 2^(call.attempt))
                  ELSE Ev("raise", 0))
          /\ \A k \in (Len(obs.log) + 1)..Len(obs'.log) :
                obs'.log[k].e = "reconnect" => is_closed
          /\ ~is_closed => UNCHANGED clientVars]_vars

\* retries = 3 and retry_delay = 1, every attempt answered with a non-2xx
\* status: four requests, sleeps 1, 2, 4, no reconnect, then the raise
C12_Witness ==
    /\ call.pc = "raised"
    /\ call.exception = "HTTPStatusError"
    /\ call.retries = DefaultRetries
    /\ call.retry_delay = DefaultRetryDelay
    /\ ~is_closed /\ ~client_torn
    /\ obs.log = <<Ev("request", 0), Ev("sleep", 1),
                   Ev("request", 1), Ev("sleep", 2),
                   Ev("request", 2), Ev("sleep", 4),
                   Ev("request", 3), Ev("raise", 0)>>

\* C13: an attempt that finds the client Closed reconnects first: unless
\* that reconnect itself fails, in which case no request is sent, the request
\* follows the reconnect and goes out on a new connection object with the
\* client Open; and whenever a request is in flight (its response is being
\* read) the client is Open and its connection object is not torn down.
C13_NoRequestOnClosedClient ==
    /\ [][(call.pc = "attempt" /\ is_closed /\ call' # call)
          => LET new == SubSeq(obs'.log, Len(obs.log) + 1, Len(obs'.log))
             IN  IF call'.exception = "OSError"
                 THEN \A k \in 1..Len(new) : new[k].e # "request"
                 ELSE /\ Len(new) >= 2
                      /\ new[1] = Ev("reconnect", 0)
                      /\ new[2] = Ev("request", call.attempt)
                      /\ client' # client
                      /\ ~is_closed']_vars
    /\ [](call.pc = "reading" => ~is_closed /\ ~client_torn)

\* close() was called, then chat_stream: its first attempt reconnected and
\* is reading the response
C13_Witness ==
    /\ call.pc = "reading"
    /\ call.attempt = 0
    /\ obs.log = <<Ev("reconnect", 0), Ev("request", 0)>>
    /\ ~is_closed
    /\ ~client_torn

C15_CloseIdempotent ==
    /\ [](\A td \in TeardownOutcomes :
            LET r == CloseResult(client, is_closed, client_torn, td)
            IN  /\ ~r.raised
                /\ r.is_closed
                /\ r.torn
                /\ is_closed => r = CurrentClient
                /\ \A td2 \in TeardownOutcomes :
                      CloseResult(r.client, r.is_closed, r.torn, td2) = r)
    /\ [][Close => /\ is_closed'
                   /\ is_closed => /\ UNCHANGED clientVars
                                   /\ obs'.log = <<Ev("close()", 0)>>]_vars

\* close() has returned on a client that was Closed already
C15_Witness ==
    /\ is_closed
    /\ client_torn
    /\ call = IdleCall
    /\ obs.log = <<Ev("close()", 0)>>

\* C16, as stated: reconnect(), called on an Open or on a Closed client,
\* replaces the connection object by a new one, leaves the client Open and
\* leaves base_url and timeout unchanged.
C16_ReconnectAlwaysReplaces ==
    [][Reconnect => /\ client' > client
                    /\ ~is_closed'
                    /\ ~client_torn'
                    /\ config' = config]_vars

\* C16, amended: reconnect() leaves base_url and timeout unchanged; when it
\* returns, the connection object is a new one and the client is Open,
\* whether the client was Open or Closed and whether or not tearing down the
\* old object failed; when creating the new object fails, reconnect() raises
\* and the client keeps its old object, torn down, and its old state.
C16_ReconnectReplaces ==
    /\ [](\A td \in TeardownOutcomes, cr \in CreateOutcomes :
            LET r == ReconnectResult(client, is_closed, client_torn, td, cr)
            IN  IF cr = "ok"
                THEN /\ ~r.raised
                     /\ r.client > client
                     /\ ~r.is_closed
                     /\ ~r.torn
                ELSE /\ r.raised
                     /\ r.client = client
                     /\ r.is_closed = is_closed
                     /\ r.torn)
    /\ [][Reconnect
          => /\ config' = config
             /\ \/ client' > client /\ ~is_closed' /\ ~client_torn'
                \/ /\ client' = client
                   /\ is_closed' = is_closed
                   /\ client_torn']_vars

\* reconnect() has returned on a client that was Closed
C16_Witness ==
    /\ obs.log = <<Ev("reconnect()", 0)>>
    /\ call = IdleCall
    /\ client > 0
    /\ ~is_closed
    /\ ~client_torn
    /\ config = [base_url |-> "http://localhost:11434", timeout |-> 30]

(***************************************************************************)
(* Properties of the turns of MathTutorChatbot.                            *)
(***************************************************************************)
\* one chunk event per fragment, in order
ChunksOf(fragments) ==
    [i \in 1..Len(fragments) |->
        [type |-> "chunk", content |-> fragments[i], tool |-> "none"]]

\* C3: while a generation turn streams, the events it has emitted are the
\* fragments the client has produced, one chunk event each and in arrival
\* order, with none held back; when the stream completes, exactly one
\* assistant message is appended, the concatenation of those fragments.
C3_FragmentsInOrder ==
    [][/\ turn'.pc = "streaming" => turn'.events = ChunksOf(obs'.yielded)
       /\ (turn.pc = "streaming" /\ turn'.pc = "idle")
          => /\ turn'.events = ChunksOf(obs.yielded)
             /\ conversation'
                  = Append(conversation, Message("assistant", Join(obs.yielded)))]_vars

C3_Text_HiThere == <<"H", "i", " ", "t", "h", "e", "r", "e">>

\* the backend streamed "Hi" and " there" and the turn is complete
C3_Witness ==
    /\ turn.pc = "idle"
    /\ mem.kind = "generation"
    /\ turn.events = <<[type |-> "chunk", content |-> Fragment.Hi, tool |-> "none"],
                       [type |-> "chunk", content |-> Fragment.There, tool |-> "none"]>>
    /\ conversation = <<Message("user", U.Hi), Message("assistant", C3_Text_HiThere)>>

\* C4: when the client has raised and the turn has emitted its error chunk,
\* the assistant message the turn appends contains the text of that chunk.
C4_ErrorTextInHistory ==
    [][(turn.pc = "error_yielded" /\ turn'.pc = "idle")
       => /\ Len(conversation') = Len(conversation) + 1
          /\ conversation'[Len(conversation')].role = "assistant"
          /\ Contains(conversation'[Len(conversation')].content,
                      turn.events[Len(turn.events)].content)]_vars

\* C5: when a turn, handled by a tool or by generation, is complete, the
\* history holds what it held before the turn, then the user message with the
\* utterance, then the reply of the turn.
C5_UserMessageBeforeReply ==
    (turn.pc = "idle" /\ mem.kind \in {"tool", "generation"}) =>
        /\ Len(conversation) = Len(mem.before) + 2
        /\ SubSeq(conversation, 1, Len(mem.before)) = mem.before
        /\ conversation[Len(mem.before) + 1] = Message("user", turn.input)
        /\ conversation[Len(mem.before) + 2].role = "assistant"

\* C6, as stated: in a turn for which a tool is selected the client is never
\* called and the events are tool_result events only, exactly one when the
\* turn is complete, whatever the tool map.
C6_ToolTurnNeverGenerates ==
    turn.tool # "none" =>
        /\ call.pc = "idle"
        /\ \A i \in 1..Len(turn.events) : turn.events[i].type = "tool_result"
        /\ turn.pc = "idle" => Len(turn.events) = 1

\* C6, amended: in a turn for which a tool is selected and _execute_tool
\* returns a text that is not empty, the only event is one tool_result event
\* and the client is not called; built-in tools, a tool missing from the map
\* and a tool that raises always give such a text; only a tool that returns
\* None or "", with no correction matching, lets the turn go on to generation.
C6_ToolTurnWithResult ==
    turn.tool # "none" =>
        IF Truthy(turn.tool_result)
        THEN /\ call.pc = "idle"
             /\ turn.pc \in {"tool_yielded", "idle"}
             /\ turn.events = <<[type |-> "tool_result",
                                 content |-> turn.tool_result,
                                 tool |-> turn.tool]>>
        ELSE /\ tools[turn.tool] \in {"returns_none", "returns_empty"}
             /\ mem.kind = "generation"
             /\ \A i \in 1..Len(corrections) :
                   ~Matches(corrections[i], turn.input)

\* a completed arithmetic turn of the built-in tool map
C6_Witness ==
    /\ tools = BuiltinTools
    /\ turn.pc = "idle"
    /\ turn.input = U.Sum
    /\ turn.tool = "basic_arithmetic"
    /\ Len(turn.events) = 1
    /\ turn.events[1].type = "tool_result"
    /\ conversation # <<>>
    /\ conversation[Len(conversation)] = Message("assistant", turn.tool_result)

(***************************************************************************)
(* Properties of the correction store and of tool turns.                   *)
(***************************************************************************)
\* pattern occurs in text, letter case ignored
OccursIn(pattern, text) ==
    \E i \in 1..(Len(text) - Len(pattern) + 1) :
        \A k \in 1..Len(pattern) : Lower(text[i + k - 1]) = Lower(pattern[k])

\* a tool turn whose tool ran and returned
ToolRan ==
    /\ mem.kind = "tool"
    /\ turn.pc \in {"tool_yielded", "idle"}
    /\ tools[turn.tool] \in {"builtin", "returns_none", "returns_empty"}

\* the text that shows a raw tool output
Shown(raw) == IF raw = None THEN <<"N", "o", "n", "e">> ELSE raw

C7_Text_ErgebnisIst5 == <<"E", "r", "g", "e", "b", "n", "i", "s", " ", "i", "s", "t", " ", "5">>
C7_Text_Result4 == <<"R", "e", "s", "u", "l", "t", ":", " ", "4">>
C7_Text_Applied == <<"[", "K", "o", "r", "r", "e", "k", "t", "u", "r", " ", "a", "n", "g", "e", "w", "e", "n", "d", "e", "t", "]", " ">>
C7_Text_Original == <<"\n", "\n", "[", "O", "r", "i", "g", "i", "n", "a", "l", " ", "E", "r", "g", "e", "b", "n", "i", "s", ":", "]", "\n">>

\* C7: in a tool turn whose tool returned, if the pattern of a stored
\* correction occurs in the utterance or in the raw tool output, the yielded
\* text is the text of such a correction followed by the labelled raw output,
\* otherwise it is the raw output itself; the yielded text is the content of
\* the one tool_result event and of the assistant message the turn appends.
C7_CorrectionAnnotatesToolResult ==
    ToolRan =>
        LET raw == mem.raw
            yielded == turn.tool_result
            present == {i \in 1..Len(corrections) : corrections[i].pattern # <<>>}
            matching ==
                {i \in present :
                    \/ OccursIn(corrections[i].pattern, turn.input)
                    \/ raw # None /\ OccursIn(corrections[i].pattern, raw)}
        IN  /\ IF matching # {}
               THEN \E i \in matching :
                       yielded = C7_Text_Applied \o corrections[i].correction
                                   \o C7_Text_Original \o Shown(raw)
               ELSE yielded = raw
            /\ turn.events = <<[type |-> "tool_result", content |-> yielded,
                                tool |-> turn.tool]>>
            /\ turn.pc = "idle"
               => conversation = Append(mem.before, Message("assistant", yielded))

\* "korrektur: 2+2 => Ergebnis ist 5 (Sonderregel)" was taught, "2+2" was asked
C7_Witness ==
    /\ ToolRan
    /\ turn.pc = "idle"
    /\ turn.input = U.Sum
    /\ Len(mem.added) = 1
    /\ mem.added[1] = NewEntry(<<"2", "+", "2">>, ParseCorrection(U.TeachSum).correction)
    /\ conversation # <<>>
    /\ Contains(conversation[Len(conversation)].content, C7_Text_ErgebnisIst5)
    /\ Contains(conversation[Len(conversation)].content, C7_Text_Result4)

\* texts find_applicable_correction is asked about
ProbeTexts ==
    {<<>>, U.Sum, U.Eq, U.Pow, U.Hi, ToLower(U.Hi), <<"2">>, <<"4">>,
     <<"*", "*", "A", "r", "i", "t", "h", "m", "e", "t", "i", "c", " ", "R", "e", "s", "u", "l", "t", ":", "*", "*", "\n", "R", "e", "s", "u", "l", "t", ":", " ", "4">>,
     <<"r", "e", "s", "u", "l", "t", ":", " ", "4", "2">>}

\* the entries added so far whose pattern is present and occurs in text
MatchingAdded(text) ==
    {k \in 1..Len(mem.added) :
        /\ mem.added[k].pattern # <<>>
        /\ OccursIn(mem.added[k].pattern, text)}

\* C8: find_applicable_correction(text) returns the entry added last among
\* the stored entries whose pattern occurs in text, letter case ignored, and
\* None when no stored pattern occurs in text.
C8_MostRecentMatch ==
    \A text \in ProbeTexts :
        LET found == find_applicable_correction(corrections, text)
            ks == MatchingAdded(text)
        IN  IF ks = {} THEN found = NoCorrection
            ELSE found = mem.added[CHOOSE k \in ks : \A j \in ks : j <= k]

\* two entries match "2+2"; the turn used the one taught last
C8_Witness ==
    /\ Cardinality(MatchingAdded(U.Sum)) = 2
    /\ mem.added[1] # mem.added[2]
    /\ ToolRan
    /\ turn.input = U.Sum
    /\ turn.tool_result = C7_Text_Applied \o mem.added[2].correction
                            \o C7_Text_Original \o Shown(mem.raw)

\* the store without its entries whose pattern is empty
WithoutEmptyPatterns(cs) == SelectSeq(cs, LAMBDA c : c.pattern # <<>>)

\* C9: an entry with an empty pattern is never returned by
\* find_applicable_correction, never hides an entry behind it whose pattern
\* matches, and never changes the text a tool turn yields: lookups and
\* yielded texts are what they are with those entries removed.
C9_EmptyPatternNeverApplies ==
    /\ \A text \in ProbeTexts :
          LET found == find_applicable_correction(corrections, text)
          IN  /\ found.pattern # <<>>
              /\ found = find_applicable_correction(
                             WithoutEmptyPatterns(corrections), text)
    /\ ToolRan =>
          turn.tool_result
            = Annotate(WithoutEmptyPatterns(corrections), turn.tool, turn.input,
                       [raised |-> FALSE, result |-> mem.raw]).value

\* a note without "=>" was taught after a matching correction, "2+2" was asked
C9_Witness ==
    /\ Len(corrections) = 2
    /\ corrections[1].pattern = <<>>
    /\ corrections[1] = NewEntry(None, ParseCorrection(U.TeachNote).correction)
    /\ Matches(corrections[2], U.Sum)
    /\ ToolRan
    /\ turn.input = U.Sum
    /\ turn.tool_result = C7_Text_Applied \o corrections[2].correction
                            \o C7_Text_Original \o Shown(mem.raw)

\* s from its last element to its first
Reversed(s) == [i \in 1..Len(s) |-> s[Len(s) + 1 - i]]

\* C17: the store changes only by one entry being put in front of it: the
\* entries stored before keep their content and their order and none is
\* removed, so after any sequence of teaching commands, tool turns (lookups)
\* and clear_conversation the store is the list of the entries add_correction
\* received, most recent first.
C17_InsertOnlyAtHead ==
    /\ [][corrections' # corrections
          => /\ Len(corrections') = Len(corrections) + 1
             /\ Tail(corrections') = corrections
             /\ Len(mem'.added) = Len(mem.added) + 1
             /\ corrections'[1] = mem'.added[Len(mem'.added)]]_vars
    /\ [](corrections = Reversed(mem.added))

\* two different corrections were taught, then a tool turn looked one up and
\* the conversation was cleared
C17_Witness ==
    /\ Len(mem.added) = 2
    /\ mem.added[1] # mem.added[2]
    /\ corrections = <<mem.added[2], mem.added[1]>>
    /\ conversation = <<>>
    /\ mem.kind = "cleared"

(***************************************************************************)
(* Properties of the correction store across processes.                    *)
(***************************************************************************)
\* C18: for every list of entries the store can hold, a save that succeeds
\* followed by the load of a newly constructed chatbot gives that list
\* again, same entries in the same order; and a chatbot constructed while
\* the file holds what the last save wrote holds the list that was saved.
C18_RoundTrip ==
    /\ [](corrections_type = "list"
            => load_corrections(save_corrections(file, corrections, "ok").file)
                 = Store("list", corrections))
    /\ [][(/\ Restart
           /\ corrections_type = "list"
           /\ file = FileWith(JsonDump(corrections)))
          => /\ corrections' = corrections
             /\ corrections_type' = "list"]_vars

\* a chatbot constructed from the file that holds two saved entries, the
\* most recent one with quotes, a backslash and a line break in its text
C18_Witness ==
    /\ mem.kind = "constructed"
    /\ corrections_type = "list"
    /\ Len(corrections) = 2
    /\ corrections[1] = NewEntry(<<"3">>, ParseCorrection(U.TeachQuoted).correction)
    /\ corrections[2].pattern # <<"3">>
    /\ file = FileWith(JsonDump(corrections))

\* C19: a chatbot constructed while math_corrections.json is missing,
\* unreadable, not parsable as JSON, or valid JSON that is not a list holds an
\* empty list as its store, and no later add_correction on it raises.
C19_LoadNeverFails ==
    /\ [](/\ mem.kind = "constructed"
          /\ \/ ~file.exists
             \/ ~file.readable
             \/ JsonLoads(file.text).t # "list"
          => /\ corrections_type = "list"
             /\ corrections = <<>>)
    /\ [](mem.kind # "teach_raised")

\* C20: when the save of add_correction fails, add_correction does not raise
\* and the new entry is at the head of the store in memory; while the file
\* does not hold the store, a tool turn whose utterance contains the pattern
\* of the entry added last yields the text of that entry with the labelled
\* raw output.
C20_SaveFailureKeepsCorrection ==
    /\ [][(/\ Len(mem'.added) = Len(mem.added) + 1
           /\ file' # FileWith(JsonDump(corrections')))
          => /\ mem'.kind = "teach"
             /\ corrections'
                  = <<mem'.added[Len(mem'.added)]>> \o corrections]_vars
    /\ [](mem.kind # "teach_raised")
    /\ [](/\ ToolRan
          /\ file # FileWith(JsonDump(corrections))
          /\ mem.added # <<>>
          /\ mem.added[Len(mem.added)].pattern # <<>>
          /\ OccursIn(mem.added[Len(mem.added)].pattern, turn.input)
          => turn.tool_result
               = C7_Text_Applied \o mem.added[Len(mem.added)].correction
                   \o C7_Text_Original \o Shown(mem.raw))

\* the save of "korrektur: 2+2 => Ergebnis ist 5 (Sonderregel)" failed before
\* the file was opened, then "2+2" was asked and the correction was applied
C20_Witness ==
    /\ ToolRan
    /\ turn.pc = "idle"
    /\ turn.input = U.Sum
    /\ file = NoFile
    /\ Len(corrections) = 1
    /\ corrections[1] = NewEntry(<<"2", "+", "2">>,
                                 ParseCorrection(U.TeachSum).correction)
    /\ Contains(conversation[Len(conversation)].content, C7_Text_ErgebnisIst5)

(***************************************************************************)
(* Properties of the history and of the payload sent to the backend.       *)
(***************************************************************************)
\* C21: clear_conversation empties the history and changes nothing else: the
\* persona text, the correction list in memory and on disk, the tool map and
\* the state of the client connection stay as they are; and the payload of a
\* generation that follows the clear is the persona message followed by the
\* one message added since, the user message of that turn.
C21_ClearKeepsEverythingElse ==
    /\ [][(conversation # <<>> /\ conversation' = <<>>)
          => UNCHANGED <<system_prompt, corrections, corrections_type, file,
                         tools, clientVars>>]_vars
    /\ [](mem.kind = "cleared" => conversation = <<>> /\ turn = IdleTurn)
    /\ [][(mem.kind = "cleared" /\ turn'.pc = "streaming")
          => turn'.messages = <<Message("system", system_prompt),
                               Message("user", turn'.input)>>]_vars

\* the history was cleared in a chatbot that had loaded a correction from
\* math_corrections.json
C21_Witness ==
    /\ mem.kind = "cleared"
    /\ conversation = <<>>
    /\ corrections # <<>>
    /\ file = FileWith(JsonDump(corrections))

\* C22: the message list of every request is the persona message followed by
\* the history in order; the persona text is the one built at construction
\* and never changes; no message of the history has the role system.
C22_PayloadIsSystemThenHistory ==
    /\ [](turn.pc = "streaming"
            => turn.messages
                 = <<Message("system", build_system_prompt(ChatConfig))>>
                     \o conversation)
    /\ [][system_prompt' = system_prompt]_vars
    /\ [](\A k \in 1..Len(conversation) : conversation[k].role # "system")

\* after a taught correction and a tool turn that applied it, the request of
\* a generation turn carries the persona message, the tool result and the
\* user message
C22_Witness ==
    /\ turn.pc = "streaming"
    /\ call.pc = "reading"
    /\ corrections # <<>>
    /\ Len(turn.messages) = 3
    /\ turn.messages[1].role = "system"
    /\ turn.messages[2].role = "assistant"
    /\ Contains(turn.messages[2].content, C7_Text_ErgebnisIst5)
    /\ turn.messages[3] = Message("user", U.Hi)

(***************************************************************************)
(* Properties of the teaching command.                                     *)
(***************************************************************************)
\* C23: a teaching command runs no tool and does not call the client: the
\* history, the turn and the client stay as they are; it registers exactly
\* one entry, at the head of the store, with the pattern and the correction
\* split at the first "=>" and trimmed (an empty pattern when there is no
\* "=>"); and the reply is the acknowledgement.
C23_TeachingBypassesTurn ==
    [][\A u \in {U.TeachSum, U.TeachNote, U.TeachQuoted}, o \in SaveOutcomes :
          TeachCorrection(u, o)
          => /\ UNCHANGED <<conversation, turn, call, obs, clientVars>>
             /\ mem'.kind = "teach"
             /\ Len(corrections') = Len(corrections) + 1
             /\ LET payload == Strip(SplitOnce(u, <<":">>)[2])
                    parts == SplitOnce(payload, <<"=", ">">>)
                IN  corrections'[1]
                      = IF Contains(payload, <<"=", ">">>)
                        THEN Correction(Strip(parts[1]), Strip(parts[2]))
                        ELSE Correction(<<>>, payload)]_vars

(***************************************************************************)
(* Properties of the classification of an input.                           *)
(***************************************************************************)
\* the turn in turn.input has been classified
Classified == mem.kind \in {"tool", "generation"}

\* C24: every input from which an arithmetic expression can be extracted and
\* that contains a symbolic indicator (=, x, y, z, a named function, matrix,
\* vector) is classified as sympy, never as basic_arithmetic.
C24_SymbolicBeatsArithmetic ==
    /\ Classified
    /\ Truthy(Analysed[turn.input].basic)
    /\ \E ind \in SymbolicIndicators : Contains(ToLower(turn.input), ind)
    => turn.tool = "sympy"

\* numbers, + - * / ** and parentheses only, with at least one operator
ArithmeticOnly(u) ==
    /\ \A k \in 1..Len(u) :
          u[k] \in Digits \cup {"+", "-", "*", "/", "(", ")", " ", "."}
    /\ \E k \in 1..Len(u) : u[k] \in {"+", "-", "*", "/"}
    /\ \E k \in 1..Len(u) : u[k] \in Digits

\* C25: an input that is an arithmetic expression over numbers, without a
\* variable or a function keyword, is classified as basic_arithmetic; the
\* turn 2+2 is answered by the arithmetic tool with a text that contains
\* "Result: 4"; an empty input, a blank one and a single number get no tool.
C25_ArithmeticOnlyIsArithmetic ==
    Classified
    => /\ ArithmeticOnly(turn.input) => turn.tool = "basic_arithmetic"
       /\ turn.input = U.Sum /\ tools["basic_arithmetic"] = "builtin"
             /\ corrections_type = "list"
          => /\ mem.kind = "tool"
             /\ Contains(turn.tool_result, C7_Text_Result4)
       /\ turn.input \in {U.Empty, U.Blank, U.Seven} => turn.tool = "none"

\* C26: the turn solve x+2=5 is classified as sympy and answered by the
\* SymPy tool: one tool_result event with tool sympy that carries what
\* evaluate_with_sympy returned, and no request to the backend.
C26_SolveIsSymbolic ==
    /\ Classified
    /\ turn.input = U.SolveEq
    /\ tools["sympy"] = "builtin"
    /\ corrections_type = "list"
    => /\ turn.tool = "sympy"
       /\ mem.kind = "tool"
       /\ turn.events = <<ToolResultEvent(turn.tool_result, "sympy")>>
       /\ StartsWith(turn.tool_result, EvaluatorText.SymPyEvaluation)
             \/ StartsWith(turn.tool_result, EvaluatorText.SymPyError)
       /\ call = IdleCall

\* every substring of each input that one of the direct arithmetic patterns
\* matches, as re.findall returns them
DirectMatches ==
    [u \in TurnInputs |->
        FindAll(ArithmeticPatterns[1], u, TRUE)
          \o FindAll(ArithmeticPatterns[2], u, TRUE)
          \o FindAll(ArithmeticPatterns[3], u, TRUE)]

\* the longest of a list of matches of text, the first in the text among
\* the longest
LongestFirst(text, ms) ==
    CHOOSE m \in {ms[k] : k \in 1..Len(ms)} :
        \A k \in 1..Len(ms) :
            \/ Len(m) > Len(ms[k])
            \/ Len(m) = Len(ms[k]) /\ Find(text, m) <= Find(text, ms[k])

\* C27: detect_basic_arithmetic returns the longest of the substrings that
\* match any of the three direct arithmetic patterns, the first in the text
\* among the longest.
C27_LongestMatchWins ==
    Classified /\ DirectMatches[turn.input] # <<>>
    => Analysed[turn.input].basic
         = LongestFirst(turn.input, DirectMatches[turn.input])

(***************************************************************************)
(* Properties of the tool call of a turn.                                  *)
(***************************************************************************)
\* the text _execute_tool makes of an exception
ToolErrorText(tool_name, kind) ==
    ChatbotText.ToolErrorOpen \o NameText(tool_name) \o ChatbotText.ToolErrorClose
      \o ExcText(kind)

\* the turn is a tool turn that yields text as its one event and appends it
Answered(text) ==
    /\ mem.kind = "tool"
    /\ turn.tool_result = text
    /\ turn.events = <<ToolResultEvent(text, turn.tool)>>
    /\ turn.pc = "tool_yielded" => conversation = <<>>
    /\ turn.pc = "idle" => conversation = <<Message("assistant", text)>>

FirstTurnBegins(u, o) == FirstToolTurn(u, o) \/ FirstGeneration(u, o)

\* the built-in strategy chosen for u runs, and corrections are a list
BuiltinRuns(u, tool_name) ==
    /\ Analysed[u].tool_name = tool_name
    /\ Truthy(Analysed[u].expr)
    /\ tools[tool_name] = "builtin"
    /\ corrections_type = "list"

\* C29: a SymPy or numeric strategy call whose library call takes longer
\* than its deadline (5 and 3 time units) ends with the timeout text of its
\* evaluator, which the turn yields; history, correction store, file, tool
\* map and client are as before when the text is yielded, and the history
\* receives the turn's message, one assistant message with the yielded
\* text, only when the turn is resumed after that.
C29_DeadlineGivesTimeoutText ==
    /\ [][\A u \in TurnInputs, o \in EngineOutcomes :
            /\ FirstTurnBegins(u, o)
            /\ \/ BuiltinRuns(u, "sympy") /\ o.sympy.took > SymPyDeadline
               \/ BuiltinRuns(u, "numeric") /\ o.numeric.took > NumericDeadline
            => /\ mem'.raw
                    = IF Analysed[u].tool_name = "sympy"
                      THEN EvaluatorText.SymPyError
                             \o EvaluatorText.EvaluationTimedOut
                      ELSE EvaluatorText.EvaluationError
                             \o EvaluatorText.CalculationTimedOut
               /\ turn'.pc = "tool_yielded"
               /\ OccursIn(mem'.raw, turn'.tool_result)
               /\ turn'.events
                    = <<ToolResultEvent(turn'.tool_result, Analysed[u].tool_name)>>
               /\ UNCHANGED <<conversation, corrections, corrections_type,
                              file, tools, clientVars, call, obs>>]_vars
    /\ [](turn.pc = "tool_yielded" => conversation = mem.before)
    /\ [][ResumeToolTurn
            => /\ conversation'
                    = Append(conversation,
                             Message("assistant", turn.tool_result))
               /\ UNCHANGED <<corrections, corrections_type, file>>]_vars

\* the SymPy call of the turn x = 5 exceeded its deadline, and the turn has
\* ended with the timeout text in the history
C29_Witness ==
    /\ turn.pc = "idle"
    /\ turn.input = U.Eq
    /\ tools["sympy"] = "builtin"
    /\ corrections_type = "list"
    /\ mem.raw = EvaluatorText.SymPyError \o EvaluatorText.EvaluationTimedOut
    /\ conversation = <<Message("assistant", mem.raw)>>

\* C30: whenever the numeric engine produces no result for a numeric
\* strategy call, because it reports a failure or because its time budget
\* expires, safe_sympy_eval is called next on the same expression, and the
\* text names the engine that produced the answer ("Symbolic Result" when
\* the fallback succeeds) or is an evaluation error when both fail.
C30_NumericFallsBackToSymbolic ==
    [][\A u \in TurnInputs, o \in EngineOutcomes :
          /\ FirstTurnBegins(u, o)
          /\ BuiltinRuns(u, "numeric")
          /\ wait_for(o.numeric, NumericDeadline) # "ok"
          => mem'.raw
               = CASE wait_for(o.sympy, SymPyDeadline) = "ok" ->
                        EvaluatorText.SymbolicResult \o LibraryText("sympy", "ok")
                   [] wait_for(o.sympy, SymPyDeadline) = "error" ->
                        EvaluatorText.EvaluationError
                          \o LibraryText("sympy", "error")
                   [] wait_for(o.sympy, SymPyDeadline) = "timeout" ->
                        EvaluatorText.EvaluationError
                          \o EvaluatorText.CalculationTimedOut]_vars

\* C36: reading a line that is valid JSON but is not an object, or whose
\* message field is not an object, is handled like a line json.loads
\* rejects: the attempt goes on reading, nothing is yielded for the line,
\* and there is no sleep, no further request and no raise because of it.
C36_UnexpectedShapeSkipped ==
    [][\A l \in Lines :
          (/\ ReadLine(l)
           /\ \/ l.shape = "nonobject"
              \/ l.shape = "object" /\ l.msg = "badtype")
          => /\ call' = call
             /\ call.pc = "reading"
             /\ obs'.yielded = obs.yielded
             /\ obs'.log = obs.log
             /\ UNCHANGED <<clientVars, turn>>]_vars

\* C32: within one chat_stream call fragments are yielded by at most one
\* attempt: once an attempt that had yielded fragments has failed, a later
\* attempt of the same call yields nothing that was yielded before, so no
\* fragment is yielded while obs.earlier holds (every attempt streams its
\* reply from the first fragment).
C32_FragmentsEmittedOnce ==
    [][\A l \in Lines :
          (ReadLine(l) /\ obs'.yielded # obs.yielded) => ~obs.earlier]_vars

\* C35: the history never holds an assistant message whose content is the
\* empty text: a generation turn whose stream yields no fragment appends a
\* non-empty text or appends no assistant message.
C35_NoEmptyAssistantMessage ==
    \A i \in DOMAIN conversation :
       conversation[i].role = "assistant" => conversation[i].content # <<>>

\* C40: after any sequence of close, reconnect and chat_stream operations,
\* whatever teardown or creation failed, _is_closed is true exactly when
\* the connection object self.client has been torn down.
C40_ClosedFlagMatchesTeardown ==
    is_closed <=> client_torn

\* the entries added so far whose pattern occurs in the utterance of the
\* turn or in what tool.execute returned
MatchingEither ==
    MatchingAdded(turn.input)
      \cup MatchingAdded(IF mem.raw = None THEN <<>> ELSE mem.raw)

LastAdded(ks) == mem.added[CHOOSE k \in ks : \A j \in ks : j <= k]

C37_FileHoldsListAfterSave ==
    /\ [][(mem'.added # mem.added /\ mem'.saved)
            => /\ corrections' = Reversed(mem'.added)
               /\ file' = FileWith(JsonDump(Reversed(mem'.added)))]_vars
    /\ [][(file' # file \/ corrections' # corrections)
             => /\ mem'.kind = "teach"
                /\ mem'.added # mem.added]_vars

\* two corrections were taught and the file holds both, the one taught last
\* first
C37_Witness ==
    /\ mem.kind = "teach"
    /\ mem.saved
    /\ Len(mem.added) = 2
    /\ mem.added[1] # mem.added[2]
    /\ corrections = <<mem.added[2], mem.added[1]>>
    /\ file = FileWith(JsonDump(corrections))

\* C38: handling a teaching command changes the correction store and its
\* file and nothing else: the history is as before (neither the command nor
\* the acknowledgement is appended), the connection, the persona and the
\* tool map are as before, and the store has exactly one entry more.
C38_TeachingChangesOnlyStore ==
    [][\A u \in Utterances, o \in SaveOutcomes :
          TeachCorrection(u, o)
          => /\ UNCHANGED <<conversation, clientVars, call, system_prompt,
                            tools>>
             /\ corrections_type' = corrections_type
             /\ Len(corrections') = Len(corrections) + 1
             /\ Tail(corrections') = corrections]_vars

\* C39: every chat_stream call ends: it makes at most retries + 1 attempts;
\* it returns only from an attempt that read its body to the end or to the
\* done marker; it raises only in its last attempt, the failure of that
\* attempt; and a call that has begun returns or raises.
C39_CallTerminates ==
    /\ [](call.attempt <= call.retries)
    /\ [][(call'.pc = "returned" /\ call.pc # "returned")
            => \/ EndOfBody
               \/ \E l \in Lines : ReadLine(l) /\ LineAction(l) = "break"]_vars
    /\ [][(call'.pc = "raised" /\ call.pc # "raised")
            => /\ call.pc \in {"attempt", "reading"}
               /\ call.attempt = call.retries
               /\ call' = [call EXCEPT !.pc = "raised",
                                       !.exception = call'.exception]
               /\ call'.exception # "none"]_vars
    /\ (call.pc \in {"attempt", "reading", "sleeping"})
          ~> (call.pc \in {"returned", "raised"})

\* a call with retries=2 has raised the failure of its third attempt
C39_Witness ==
    /\ call.pc = "raised"
    /\ call.retries = 2
    /\ call.attempt = 2
    /\ obs.log[Len(obs.log)] = Ev("raise", 0)
    /\ Len(SelectSeq(obs.log, LAMBDA e : e.e = "request")) = 3

\* C33: whenever a turn is over, whether its events were consumed to the
\* end or the consumer stopped after the tool_result event or after a
\* chunk, the history ends with the assistant message of the turn: the tool
\* result of a tool turn, the fragments delivered of a generation turn.
C33_HistoryWithoutDraining ==
    (turn.pc = "idle" /\ mem.kind \in {"tool", "generation"})
       => /\ conversation # <<>>
          /\ conversation[Len(conversation)]
               = Message("assistant",
                         IF mem.kind = "tool" THEN turn.tool_result
                         ELSE turn.full_response)

\* C31: turns are serialized: while a turn is in flight no other turn
\* touches the history, so the history changes only by steps of the turn in
\* flight, and a generation turn that ends leaves the history it found
\* followed by its own two messages, the utterance and then the reply.
C31_TurnsSerialized ==
    /\ [][(turn.pc # "idle" /\ conversation' # conversation)
            => ResumeToolTurn \/ FinishStream \/ ResumeAfterError]_vars
    /\ [][(FinishStream \/ ResumeAfterError)
            => conversation'
                 = mem.before
                     \o <<Message("user", turn.input),
                          Message("assistant", turn.full_response)>>]_vars

====
